---- MODULE Spec2Model ----
(***************************************************************************)
(* Model of the regular-inspection (정기 점검) web application, main.py.     *)
(*                                                                         *)
(* State: the four SQLite tables of init_db (companies, tasks,             *)
(* checklist_items, checklist_completions), the AUTOINCREMENT counters of  *)
(* sqlite_sequence, the files of ATTACHMENTS_DIR, the second of the clock, *)
(* the response of the last request served, and the position of every      *)
(* request that is being served step by step.                              *)
(*                                                                         *)
(* Two ways of serving requests are modelled:                              *)
(*   - Spec:     `python main.py`, wsgiref's single-threaded server: one   *)
(*               request handler runs to completion before the next.       *)
(*   - SpecRace: `application` under a concurrent WSGI server: handlers    *)
(*               interleave at the granularity of the SQL statements each  *)
(*               connection commits (section 5 of the specification).      *)
(*                                                                         *)
(* The single-threaded server is also followed from installed tasks:       *)
(* SpecPeriods (one task over several periods), SpecEdit (checklists being *)
(* edited), SpecVisibility (tasks hidden and shown) and SpecSchedule       *)
(* (schedules of any type and text), SpecDescriptions (descriptions that   *)
(* are blank or padded), SpecParams (request parameters that are no        *)
(* numbers), SpecUploads (files uploaded and downloaded), SpecMonths       *)
(* (months outside 1..12) and SpecRewrite (descriptions of existing items  *)
(* rewritten).  SpecToggles follows concurrent toggles on rows that exist. *)
(*                                                                         *)
(* Text is a sequence of one-character strings; Python's None for a text   *)
(* column is the empty sequence where the code itself normalises "" to     *)
(* None (schedule_detail, lines 577 and 706).  SQLite integers 0/1 are     *)
(* kept as 0/1.                                                            *)
(***************************************************************************)
EXTENDS Integers, Sequences, FiniteSets, TLC

VARIABLES companies, tasks, checklist_items, checklist_completions,
          sqlite_sequence, attachments, clock, resp, workers

dbvars == <<companies, tasks, checklist_items, checklist_completions, sqlite_sequence,
            attachments>>
vars == <<companies, tasks, checklist_items, checklist_completions,
          sqlite_sequence, attachments, clock, resp, workers>>

(***************************************************************************)
(* Bounds of the model.                                                    *)
(***************************************************************************)
MaxCompanies == 1
MaxTasks == 2
MaxItems == 2
NumWorkers == 2
\* The item ids handed out while checklists are edited.
MaxEditItems == 4
\* The length of the schedule_detail texts tried exhaustively.
MaxDetailLen == 3

\* "no value": Python's None for an optional integer, and fetchone()'s None.
NoInt == 0 - 1

(***************************************************************************)
(* Text helpers: str.strip, str.split(','), int().                         *)
(***************************************************************************)
IsSpace(c) == c = " "

RECURSIVE lstrip(_)
lstrip(s) == IF s # <<>> /\ IsSpace(Head(s)) THEN lstrip(Tail(s)) ELSE s

RECURSIVE rstrip(_)
rstrip(s) ==
    IF s # <<>> /\ IsSpace(s[Len(s)]) THEN rstrip(SubSeq(s, 1, Len(s) - 1)) ELSE s

\* str.strip(): leading and trailing whitespace removed.
strip(s) == rstrip(lstrip(s))

\* str.split(','): the fields between commas, empty fields kept.
RECURSIVE split_comma(_, _, _)
split_comma(s, cur, acc) ==
    IF s = <<>> THEN Append(acc, cur)
    ELSE IF Head(s) = "," THEN split_comma(Tail(s), <<>>, Append(acc, cur))
    ELSE split_comma(Tail(s), Append(cur, Head(s)), acc)

DigitChars == {"0", "1", "2", "3", "4", "5", "6", "7", "8", "9"}

DigitValue(c) ==
    CASE c = "0" -> 0 [] c = "1" -> 1 [] c = "2" -> 2 [] c = "3" -> 3
      [] c = "4" -> 4 [] c = "5" -> 5 [] c = "6" -> 6 [] c = "7" -> 7
      [] c = "8" -> 8 [] c = "9" -> 9

RECURSIVE digits_value(_, _)
digits_value(s, acc) ==
    IF s = <<>> THEN acc ELSE digits_value(Tail(s), 10 * acc + DigitValue(Head(s)))

\* int(text): surrounding whitespace and one sign are accepted, then decimal
\* digits only; anything else raises ValueError (ok = FALSE).
py_int(text) ==
    LET t == strip(text)
        signed == t # <<>> /\ Head(t) \in {"+", "-"}
        body == IF signed THEN Tail(t) ELSE t
        ok == body # <<>> /\ \A i \in 1..Len(body) : body[i] \in DigitChars
    IN [ok |-> ok,
        val |-> IF ~ok THEN 0
                ELSE IF signed /\ Head(t) = "-" THEN 0 - digits_value(body, 0)
                ELSE digits_value(body, 0)]

\* A faulty parse_month_list: the numbers outside 1..12 are kept.
parse_month_list_unfiltered(month_list_str) ==
    IF month_list_str = <<>> THEN <<>>
    ELSE LET fields == SelectSeq(split_comma(month_list_str, <<>>, <<>>),
                                 LAMBDA m : strip(m) # <<>>)
             bad == \E i \in 1..Len(fields) : ~py_int(fields[i]).ok
         IN IF bad THEN <<>>
            ELSE [i \in 1..Len(fields) |-> py_int(fields[i]).val]

\* parse_month_list: the months of a comma-separated list; [] for None or "",
\* and [] as soon as one non-blank field is not an integer (ValueError).
parse_month_list(month_list_str) ==
    IF month_list_str = <<>> THEN <<>>
    ELSE LET fields == SelectSeq(split_comma(month_list_str, <<>>, <<>>),
                                 LAMBDA m : strip(m) # <<>>)
             bad == \E i \in 1..Len(fields) : ~py_int(fields[i]).ok
             months == [i \in 1..Len(fields) |-> py_int(fields[i]).val]
         IN IF bad THEN <<>>
            ELSE SelectSeq(months, LAMBDA m : 1 <= m /\ m <= 12)

\* The set of elements of a sequence.
Range(s) == {s[i] : i \in 1..Len(s)}

\* A finite set of integers as the ascending sequence of its elements
\* (SQLite returns the rows of a table scan in rowid order).
RECURSIVE SortedSeq(_)
SortedSeq(S) ==
    IF S = {} THEN <<>>
    ELSE LET lo == CHOOSE x \in S : \A y \in S : x <= y
         IN <<lo>> \o SortedSeq(S \ {lo})

(***************************************************************************)
(* The database.  A handler works on a value db, the five pieces of the    *)
(* SQLite file and the attachments directory, and yields the db it leaves. *)
(*   companies:             id -> name                                     *)
(*   tasks:                 id -> [company_id, schedule_type,              *)
(*                                 schedule_detail, active]                *)
(*   checklist_items:       id -> [task_id, description, attachment,       *)
(*                                 order_num, completed]; attachment is    *)
(*                                 the empty text for NULL                 *)
(*   checklist_completions: <<item_id, year, month>> -> the completed      *)
(*                          values of the rows with that key, in rowid     *)
(*                          order (a key with no row is not in the domain) *)
(*   sqlite_sequence:       the AUTOINCREMENT counter of each table        *)
(*   attachments:           file name -> content, the files of             *)
(*                          ATTACHMENTS_DIR                                *)
(***************************************************************************)
Db == [companies |-> companies, tasks |-> tasks,
       checklist_items |-> checklist_items,
       checklist_completions |-> checklist_completions,
       sqlite_sequence |-> sqlite_sequence, attachments |-> attachments]

\* A table with no row.
EmptyTable == [x \in {} |-> 0]

\* init_db on a fresh file: four empty tables; ATTACHMENTS_DIR is created
\* empty (line 61).
init_db ==
    [companies |-> EmptyTable, tasks |-> EmptyTable, checklist_items |-> EmptyTable,
     checklist_completions |-> EmptyTable,
     sqlite_sequence |-> [companies |-> 0, tasks |-> 0, checklist_items |-> 0],
     attachments |-> EmptyTable]

\* A function without the arguments in S.
Without(f, S) == [x \in (DOMAIN f) \ S |-> f[x]]

\* The rows of checklist_completions with key k.
RowsOf(cc, k) == IF k \in DOMAIN cc THEN cc[k] ELSE <<>>

\* SELECT completed FROM checklist_completions WHERE item_id, year, month;
\* fetchone(): the first row, or None.
SelectCompleted(cc, k) == IF RowsOf(cc, k) = <<>> THEN NoInt ELSE RowsOf(cc, k)[1]

\* A faulty INSERT: a table without UNIQUE(item_id, year, month).
InsertCompletionNoUnique(cc, k, completed) ==
    [ok |-> TRUE,
     cc |-> [x \in (DOMAIN cc) \cup {k} |->
               IF x = k THEN Append(RowsOf(cc, k), completed) ELSE cc[x]]]

\* INSERT INTO checklist_completions (item_id, year, month, completed) and
\* commit.  UNIQUE(item_id, year, month) rejects a second row for the key:
\* sqlite3.IntegrityError (ok = FALSE), table unchanged.
InsertCompletion(cc, k, completed) ==
    IF RowsOf(cc, k) # <<>> THEN [ok |-> FALSE, cc |-> cc]
    ELSE [ok |-> TRUE, cc |-> [x \in (DOMAIN cc) \cup {k} |->
                                 IF x = k THEN <<completed>> ELSE cc[x]]]

\* UPDATE checklist_completions SET completed = ? WHERE item_id, year, month:
\* every row with the key; no row, no change.
UpdateCompletion(cc, k, completed) ==
    [x \in DOMAIN cc |-> IF x = k THEN [i \in 1..Len(cc[x]) |-> completed] ELSE cc[x]]

\* DELETE FROM checklist_completions WHERE item_id = ?
DeleteCompletionsOfItem(cc, item_id) ==
    Without(cc, {k \in DOMAIN cc : k[1] = item_id})

\* A faulty ensure_completion: the inserted row is reported as complete.
ensure_completion_wrong_default(cc, item_id, year, month) ==
    IF SelectCompleted(cc, <<item_id, year, month>>) # NoInt
    THEN [cc |-> cc, ret |-> SelectCompleted(cc, <<item_id, year, month>>),
          raised |-> FALSE]
    ELSE [cc |-> InsertCompletion(cc, <<item_id, year, month>>, 1).cc, ret |-> 1,
          raised |-> ~InsertCompletion(cc, <<item_id, year, month>>, 1).ok]

\* A faulty ensure_completion: an upsert that resets the existing row to 0.
ensure_completion_resets(cc, item_id, year, month) ==
    IF SelectCompleted(cc, <<item_id, year, month>>) # NoInt
    THEN [cc |-> UpdateCompletion(cc, <<item_id, year, month>>, 0), ret |-> 0,
          raised |-> FALSE]
    ELSE [cc |-> InsertCompletion(cc, <<item_id, year, month>>, 0).cc, ret |-> 0,
          raised |-> ~InsertCompletion(cc, <<item_id, year, month>>, 0).ok]

\* ensure_completion, run without interruption: the status of the existing
\* row, or a new row with completed = 0 and status 0.
ensure_completion(cc, item_id, year, month) ==
    IF SelectCompleted(cc, <<item_id, year, month>>) # NoInt
    THEN [cc |-> cc, ret |-> SelectCompleted(cc, <<item_id, year, month>>),
          raised |-> FALSE]
    ELSE [cc |-> InsertCompletion(cc, <<item_id, year, month>>, 0).cc, ret |-> 0,
          raised |-> ~InsertCompletion(cc, <<item_id, year, month>>, 0).ok]

\* SELECT id FROM checklist_items WHERE task_id = ?  (rowid order)
ItemIdsOfTask(db, task_id) ==
    {i \in DOMAIN db.checklist_items : db.checklist_items[i].task_id = task_id}

\* SELECT COUNT(*) FROM checklist_completions cc JOIN checklist_items ci
\* ON cc.item_id = ci.id WHERE ci.task_id = ? AND cc.completed = 1, summed
\* over the keys of the rows joined (lines 243-246 and 406-410).
RECURSIVE count_completed_rows(_, _)
count_completed_rows(cc, keys) ==
    IF keys = {} THEN 0
    ELSE LET k == CHOOSE x \in keys : TRUE
         IN Cardinality({n \in 1..Len(cc[k]) : cc[k][n] = 1})
              + count_completed_rows(cc, keys \ {k})

\* A faulty has_any_completion: AND cc.completed = 1 is missing.
has_any_completion_any_status(db, task_id) ==
    \E k \in DOMAIN db.checklist_completions : k[1] \in ItemIdsOfTask(db, task_id)

\* has_any_completion: count > 0.
has_any_completion(db, task_id) ==
    count_completed_rows(db.checklist_completions,
                         {k \in DOMAIN db.checklist_completions :
                            k[1] \in ItemIdsOfTask(db, task_id)}) > 0

\* get_all_tasks: the tasks JOINed with their company, each with its
\* completed_count (ORDER BY c.name, t.id; the companies entered bear the
\* same name, so by t.id).
get_all_tasks(db) ==
    LET ids == SortedSeq({t \in DOMAIN db.tasks :
                            db.tasks[t].company_id \in DOMAIN db.companies})
    IN [n \in 1..Len(ids) |->
          [id |-> ids[n],
           completed_count |->
               count_completed_rows(db.checklist_completions,
                                    {k \in DOMAIN db.checklist_completions :
                                       k[1] \in ItemIdsOfTask(db, ids[n])})]]

\* A faulty test: completed items are counted instead of incomplete ones.
counts_incomplete_inverted(status) == status = 1

\* if status == 0: incomplete += 1  (lines 297-298)
counts_incomplete(status) == status = 0

\* One round of the loop of get_incomplete_count_year_month: e is what
\* ensure_completion gave for the first of st.items.
count_item(st, e) ==
    [cc |-> e.cc, items |-> Tail(st.items),
     ret |-> IF counts_incomplete(e.ret) THEN st.ret + 1 ELSE st.ret]

\* The loop of get_incomplete_count_year_month over the item ids; st holds
\* the table (cc), the ids still to visit (items) and the count (ret).
RECURSIVE count_incomplete(_, _, _)
count_incomplete(st, year, month) ==
    IF st.items = <<>> THEN st
    ELSE count_incomplete(
             count_item(st, ensure_completion(st.cc, Head(st.items), year, month)),
             year, month)

\* get_incomplete_count_year_month: the number (ret) of the task's items whose
\* status for the period is 0, each status taken through ensure_completion.
get_incomplete_count_year_month(db, task_id, year, month) ==
    count_incomplete([cc |-> db.checklist_completions,
                      items |-> SortedSeq(ItemIdsOfTask(db, task_id)),
                      ret |-> 0], year, month)

\* SELECT * FROM checklist_items WHERE task_id = ? ORDER BY order_num: the
\* item ids by ascending order_num (rows of equal order_num by rowid).
RECURSIVE OrderByOrderNum(_, _)
OrderByOrderNum(items, S) ==
    IF S = {} THEN <<>>
    ELSE LET lo == CHOOSE x \in S : \A y \in S :
                       \/ items[x].order_num < items[y].order_num
                       \/ items[x].order_num = items[y].order_num /\ x <= y
         IN <<lo>> \o OrderByOrderNum(items, S \ {lo})

\* One round of the loop of get_items_with_completion: e is what
\* ensure_completion gave for the first of st.items.
annotate_item(st, e) ==
    [cc |-> e.cc, items |-> Tail(st.items),
     ret |-> Append(st.ret, [id |-> Head(st.items), completed |-> e.ret])]

\* The loop of get_items_with_completion; st holds the table (cc), the ids
\* still to visit (items) and the result list (ret).
RECURSIVE annotate_items(_, _, _)
annotate_items(st, year, month) ==
    IF st.items = <<>> THEN st
    ELSE annotate_items(
             annotate_item(st, ensure_completion(st.cc, Head(st.items), year, month)),
             year, month)

\* A faulty get_items_with_completion: the row's own 'completed' column
\* is kept ({'completed': status, **dict(item)}).
get_items_with_completion_legacy(db, task_id, year, month) ==
    [annotate_items([cc |-> db.checklist_completions,
                     items |-> OrderByOrderNum(db.checklist_items,
                                               ItemIdsOfTask(db, task_id)),
                     ret |-> <<>>], year, month)
       EXCEPT !.ret = [n \in DOMAIN @ |->
                         [id |-> @[n].id,
                          completed |-> db.checklist_items[@[n].id].completed]]]

\* get_items_with_completion: the task's items by order_num (ret), each with
\* the status of the period as its 'completed' field.
get_items_with_completion(db, task_id, year, month) ==
    annotate_items([cc |-> db.checklist_completions,
                    items |-> OrderByOrderNum(db.checklist_items,
                                              ItemIdsOfTask(db, task_id)),
                    ret |-> <<>>], year, month)

\* The due months of a task row (lines 210-213).
due_months(row) ==
    IF row.schedule_type = "monthly" THEN [i \in 1..12 |-> i]
    ELSE parse_month_list(row.schedule_detail)

\* A faulty get_tasks_for_month: WHERE t.active = 1 is missing.
get_tasks_for_month_ignoring_active(db, month) ==
    SortedSeq({t \in DOMAIN db.tasks :
                 /\ db.tasks[t].company_id \in DOMAIN db.companies
                 /\ month \in Range(due_months(db.tasks[t]))})

\* get_tasks_for_month: the ids of the tasks JOINed with their company,
\* active = 1, that are due in the month.
get_tasks_for_month(db, month) ==
    SortedSeq({t \in DOMAIN db.tasks :
                 /\ db.tasks[t].company_id \in DOMAIN db.companies
                 /\ db.tasks[t].active = 1
                 /\ month \in Range(due_months(db.tasks[t]))})

\* tasks = [t for t in tasks if t['company_id'] == company_id]
filter_company(db, task_ids, company_id) ==
    IF company_id = NoInt THEN task_ids
    ELSE SelectSeq(task_ids, LAMBDA t : db.tasks[t].company_id = company_id)

(***************************************************************************)
(* Request handlers, each run without interruption: db -> [db, resp].      *)
(***************************************************************************)
WithCompletions(db, cc) == [db EXCEPT !.checklist_completions = cc]

\* A faulty classification: a task with no incomplete item is overdue too.
is_overdue_nonstrict(incomplete) == incomplete >= 0

\* 'is_overdue': incomplete > 0  (line 467)
is_overdue(incomplete) == incomplete > 0

\* What both task loops keep of one task: the table after the two reads,
\* the incomplete count and the items with their status.
task_record(t, inc, its) ==
    [cc |-> its.cc, id |-> t, incomplete_count |-> inc.ret, items |-> its.ret]

\* get_items_with_completion(task_id, year, month), called after the count.
task_items(db, t, year, month, inc) ==
    task_record(t, inc,
                get_items_with_completion(WithCompletions(db, inc.cc), t, year, month))

\* One round of the task loops of dashboard_handler (lines 461-465) and of
\* build_month_stats (lines 516-519): get_incomplete_count_year_month, then
\* get_items_with_completion.
task_status(db, cc, t, year, month) ==
    task_items(db, t, year, month,
               get_incomplete_count_year_month(WithCompletions(db, cc), t, year, month))

\* The entry the dashboard keeps of a task (lines 466-468).
annotated(st, a) ==
    [cc |-> a.cc, task_ids |-> Tail(st.task_ids),
     ret |-> Append(st.ret, [id |-> a.id, incomplete_count |-> a.incomplete_count,
                             is_overdue |-> is_overdue(a.incomplete_count),
                             items |-> a.items])]

\* The loop of dashboard_handler over the month's tasks; st holds the table
\* (cc), the tasks still to visit (task_ids) and the annotated list (ret).
RECURSIVE annotate_tasks(_, _, _, _)
annotate_tasks(db, st, year, month) ==
    IF st.task_ids = <<>> THEN st
    ELSE annotate_tasks(
             db, annotated(st, task_status(db, st.cc, Head(st.task_ids), year, month)),
             year, month)

\* total_tasks > 0 and len(items) > 0 and incomplete == 0  (line 520)
counts_as_done(total_tasks, n_items, incomplete) ==
    total_tasks > 0 /\ n_items > 0 /\ incomplete = 0

\* if ...: done_tasks += 1  (lines 520-521)
counted(st, total_tasks, a) ==
    [cc |-> a.cc, task_ids |-> Tail(st.task_ids),
     ret |-> IF counts_as_done(total_tasks, Len(a.items), a.incomplete_count)
             THEN st.ret + 1 ELSE st.ret]

\* The inner loop of build_month_stats over one month's tasks; st holds the
\* table (cc), the tasks still to visit (task_ids) and done_tasks (ret).
RECURSIVE count_done_tasks(_, _, _, _, _)
count_done_tasks(db, st, total_tasks, year, month) ==
    IF st.task_ids = <<>> THEN st
    ELSE count_done_tasks(
             db, counted(st, total_tasks,
                         task_status(db, st.cc, Head(st.task_ids), year, month)),
             total_tasks, year, month)

\* stats[month] = (done_tasks, total_tasks)  (line 523)
month_entry(st, month_tasks, done) ==
    [cc |-> done.cc, month |-> st.month + 1,
     ret |-> Append(st.ret, <<done.ret, Len(month_tasks)>>)]

\* One round of the outer loop of build_month_stats, for the month's tasks.
month_stat(db, st, year, month_tasks) ==
    month_entry(st, month_tasks,
                count_done_tasks(db, [cc |-> st.cc, task_ids |-> month_tasks,
                                      ret |-> 0],
                                 Len(month_tasks), year, st.month))

\* The outer loop of build_month_stats: month = 1, ..., 12; st holds the
\* table (cc), the month and the statistics so far (ret).
RECURSIVE month_stats_from(_, _, _, _)
month_stats_from(db, st, year, company_id) ==
    IF st.month > 12 THEN st
    ELSE month_stats_from(
             db, month_stat(db, st, year,
                            filter_company(db, get_tasks_for_month(db, st.month),
                                           company_id)),
             year, company_id)

\* build_month_stats: month -> (done_tasks, total_tasks), as a 12-tuple (ret).
build_month_stats(db, year, company_id) ==
    month_stats_from(db, [cc |-> db.checklist_completions, month |-> 1,
                          ret |-> <<>>], year, company_id)

\* The page of dashboard_handler and the table its reads leave.
dashboard_page(db, selected_month, selected_year, company_id, ann, stats) ==
    [db |-> WithCompletions(db, stats.cc),
     resp |-> [op |-> "dashboard", month |-> selected_month,
               year |-> selected_year, company |-> company_id,
               tasks |-> ann.ret, month_stats |-> stats.ret]]

\* month_stats = build_month_stats(selected_year, company_id), after the
\* task loop.
dashboard_stats(db, selected_month, selected_year, company_id, ann) ==
    dashboard_page(db, selected_month, selected_year, company_id, ann,
                   build_month_stats(WithCompletions(db, ann.cc), selected_year,
                                     company_id))

\* dashboard_handler: the month's tasks, annotated, and the year's statistics.
dashboard_handler(db, selected_month, selected_year, company_id) ==
    dashboard_stats(db, selected_month, selected_year, company_id,
                    annotate_tasks(db, [cc |-> db.checklist_completions,
                                        task_ids |-> filter_company(
                                            db, get_tasks_for_month(db, selected_month),
                                            company_id),
                                        ret |-> <<>>],
                                   selected_year, selected_month))

\* task_detail_handler: 404 for an unknown task (or one whose company is
\* missing from the JOIN), else the task's items with the period's status.
task_detail_handler(db, task_id, selected_year, selected_month) ==
    IF ~(task_id \in DOMAIN db.tasks
         /\ db.tasks[task_id].company_id \in DOMAIN db.companies)
    THEN [db |-> db, resp |-> [op |-> "task_detail", status |-> "not_found",
                               task |-> task_id, year |-> selected_year,
                               month |-> selected_month, items |-> <<>>]]
    ELSE LET its == get_items_with_completion(db, task_id, selected_year,
                                              selected_month)
         IN [db |-> WithCompletions(db, its.cc),
             resp |-> [op |-> "task_detail", status |-> "ok", task |-> task_id,
                       year |-> selected_year, month |-> selected_month,
                       items |-> its.ret]]

\* A faulty toggle: the status read is written back unchanged.
new_status_same(current_status) == current_status

\* A faulty toggle: the item is marked complete whatever was read.
new_status_always_done(current_status) == 1

\* new_status = 0 if current_status == 1 else 1  (line 1060)
new_status_of(current_status) == IF current_status = 1 THEN 0 ELSE 1

\* A faulty toggle: the UPDATE names the item only, not the period.
toggle_update_any_period(cc, k, new_status) ==
    [x \in DOMAIN cc |-> IF x[1] = k[1] THEN [i \in 1..Len(cc[x]) |-> new_status]
                         ELSE cc[x]]

\* A faulty toggle: a row that becomes incomplete is removed instead.
toggle_update_drops_incomplete(cc, k, new_status) ==
    IF new_status = 0 THEN Without(cc, {k}) ELSE UpdateCompletion(cc, k, new_status)

\* The UPDATE of toggle_item_handler (lines 1064-1067).
toggle_update(cc, k, new_status) == UpdateCompletion(cc, k, new_status)

\* toggle_item_handler: ensure_completion, then the negated status is
\* written to the row of (item_id, year, month).  task_id is not used.
toggle_item_handler(db, task_id, item_id, year, month) ==
    LET e == ensure_completion(db.checklist_completions, item_id, year, month)
        current_status == e.ret
        new_status == new_status_of(current_status)
    IN [db |-> WithCompletions(db, toggle_update(e.cc, <<item_id, year, month>>,
                                                 new_status)),
        resp |-> [op |-> "toggle", status |-> "redirect", item |-> item_id,
                  year |-> year, month |-> month,
                  current_status |-> current_status, new_status |-> new_status]]

\* new_company_post_handler: a company row when the stripped name is not empty.
new_company_post_handler(db, name) ==
    LET id == db.sqlite_sequence.companies + 1
    IN IF strip(name) = <<>> THEN [db |-> db, resp |-> [op |-> "new_company"]]
       ELSE [db |-> [db EXCEPT
                       !.companies = [c \in (DOMAIN db.companies) \cup {id} |->
                                        IF c = id THEN strip(name) ELSE db.companies[c]],
                       !.sqlite_sequence.companies = id],
             resp |-> [op |-> "new_company"]]

\* One INSERT INTO checklist_items (lines 631-637, 847-850): the next
\* AUTOINCREMENT id, completed = 0 by default; the attachment column is
\* filled in by store_attachment when a file came with the row.
insert_item(db, task_id, description, order_num) ==
    LET id == db.sqlite_sequence.checklist_items + 1
    IN [db EXCEPT
          !.checklist_items = [i \in (DOMAIN db.checklist_items) \cup {id} |->
                                 IF i = id
                                 THEN [task_id |-> task_id, description |-> description,
                                       attachment |-> <<>>,
                                       order_num |-> order_num, completed |-> 0]
                                 ELSE db.checklist_items[i]],
          !.sqlite_sequence.checklist_items = id]

\* A faulty loop: a blank description is inserted as an item too.
RECURSIVE insert_new_task_items_keeps_blank(_, _, _, _)
insert_new_task_items_keeps_blank(db, task_id, descriptions, idx) ==
    IF idx >= Len(descriptions) THEN db
    ELSE insert_new_task_items_keeps_blank(
             insert_item(db, task_id, strip(descriptions[idx + 1]), idx),
             task_id, descriptions, idx + 1)

\* A faulty loop: the INSERT leaves order_num to its DEFAULT 0.
RECURSIVE insert_new_task_items_default_order(_, _, _, _)
insert_new_task_items_default_order(db, task_id, descriptions, idx) ==
    IF idx >= Len(descriptions) THEN db
    ELSE LET desc_str == strip(descriptions[idx + 1])
         IN IF desc_str = <<>>
            THEN insert_new_task_items_default_order(db, task_id, descriptions, idx + 1)
            ELSE insert_new_task_items_default_order(
                     insert_item(db, task_id, desc_str, 0),
                     task_id, descriptions, idx + 1)

\* The loop of new_task_post_handler over enumerate(descriptions): a blank
\* description is skipped, the others get order_num = their index.
RECURSIVE insert_new_task_items(_, _, _, _)
insert_new_task_items(db, task_id, descriptions, idx) ==
    IF idx >= Len(descriptions) THEN db
    ELSE LET desc_str == strip(descriptions[idx + 1])
         IN IF desc_str = <<>>
            THEN insert_new_task_items(db, task_id, descriptions, idx + 1)
            ELSE insert_new_task_items(insert_item(db, task_id, desc_str, idx),
                                       task_id, descriptions, idx + 1)

\* new_task_post_handler: a task row (company_id as submitted, '0' when the
\* field is missing; active = 1 by default) and its checklist items.
new_task_post_handler(db, form) ==
    LET task_id == db.sqlite_sequence.tasks + 1
        row == [company_id |-> form.company_id,
                schedule_type |-> form.schedule_type,
                schedule_detail |-> form.schedule_detail,
                active |-> 1]
        db1 == [db EXCEPT
                  !.tasks = [t \in (DOMAIN db.tasks) \cup {task_id} |->
                               IF t = task_id THEN row ELSE db.tasks[t]],
                  !.sqlite_sequence.tasks = task_id]
    IN [db |-> insert_new_task_items(db1, task_id, form.item_description, 0),
        resp |-> [op |-> "new_task", task |-> task_id]]

\* A faulty deletion: the completions of every item of the tasks concerned
\* are deleted, not only those of the items deleted.
delete_items_all_completions(db, ids) ==
    [db EXCEPT
       !.checklist_completions =
           Without(db.checklist_completions,
                   {k \in DOMAIN db.checklist_completions :
                      \E i \in ids :
                          /\ k[1] \in DOMAIN db.checklist_items
                          /\ db.checklist_items[k[1]].task_id
                               = db.checklist_items[i].task_id}),
       !.checklist_items = Without(db.checklist_items, ids)]

\* A faulty deletion: the rows of checklist_items only, their completions
\* are left behind.
delete_items_keeps_completions(db, ids) ==
    [db EXCEPT !.checklist_items = Without(db.checklist_items, ids)]

\* DELETE FROM checklist_completions WHERE item_id = ?, then
\* DELETE FROM checklist_items WHERE id = ?, for each id (lines 808-812).
delete_items(db, ids) ==
    [db EXCEPT
       !.checklist_completions =
           Without(db.checklist_completions,
                   {k \in DOMAIN db.checklist_completions : k[1] \in ids}),
       !.checklist_items = Without(db.checklist_items, ids)]

\* The loop over new_item_description (lines 834-851).
RECURSIVE insert_edit_items(_, _, _, _, _)
insert_edit_items(db, task_id, new_descriptions, idx, next_order) ==
    IF idx >= Len(new_descriptions) THEN db
    ELSE LET desc_str == strip(new_descriptions[idx + 1])
         IN IF desc_str = <<>>
            THEN insert_edit_items(db, task_id, new_descriptions, idx + 1, next_order)
            ELSE insert_edit_items(insert_item(db, task_id, desc_str, next_order),
                                   task_id, new_descriptions, idx + 1, next_order + 1)

\* SELECT COALESCE(MAX(order_num), -1) FROM checklist_items WHERE task_id = ?
max_order_num(db, task_id) ==
    LET ids == ItemIdsOfTask(db, task_id)
    IN IF ids = {} THEN 0 - 1
       ELSE LET top == CHOOSE x \in ids : \A y \in ids :
                           db.checklist_items[y].order_num <= db.checklist_items[x].order_num
            IN db.checklist_items[top].order_num

\* A faulty edit: the items are not renumbered.
renumber_items_skipped(db, task_id) == db

\* Lines 854-863: order_num = the position in ORDER BY order_num, from 0.
renumber_items(db, task_id) ==
    LET all_item_ids == OrderByOrderNum(db.checklist_items, ItemIdsOfTask(db, task_id))
    IN [db EXCEPT
          !.checklist_items =
              [i \in DOMAIN db.checklist_items |->
                 IF i \in Range(all_item_ids)
                 THEN [db.checklist_items[i] EXCEPT
                         !.order_num = (CHOOSE n \in 1..Len(all_item_ids) :
                                           all_item_ids[n] = i) - 1]
                 ELSE db.checklist_items[i]]]

\* edit_task_post_handler, one transaction; the response is the redirect
\* (also for a task that does not exist, line 719), kept here with the task
\* and the ids of ids_to_delete.  The form: company_id (NoInt
\* when missing or not a number), schedule_type and schedule_detail (empty
\* when missing), delete_item (the ids ticked), existing_item_description
\* (id -> text, for the ids submitted), new_item_description.
edit_task_post_handler(db, task_id, form) ==
    IF task_id \notin DOMAIN db.tasks
    THEN [db |-> db, resp |-> [op |-> "edit_task", status |-> "redirect",
                               task |-> task_id, deleted |-> {}]]
    ELSE LET existing == db.tasks[task_id]
             row == [existing EXCEPT
                       !.company_id = IF form.company_id # NoInt THEN form.company_id
                                      ELSE existing.company_id,
                       !.schedule_type = IF form.schedule_type # "" THEN form.schedule_type
                                         ELSE existing.schedule_type,
                       !.schedule_detail = IF form.schedule_detail # <<>>
                                           THEN form.schedule_detail
                                           ELSE existing.schedule_detail]
             db1 == [db EXCEPT !.tasks[task_id] = row]
             existing_ids == ItemIdsOfTask(db1, task_id)
             ids_to_delete == existing_ids \cap form.delete_item
             db2 == delete_items(db1, ids_to_delete)
             db3 == [db2 EXCEPT
                       !.checklist_items =
                           [i \in DOMAIN db2.checklist_items |->
                              IF i \in existing_ids
                                 /\ i \in DOMAIN form.existing_item_description
                              THEN [db2.checklist_items[i] EXCEPT
                                      !.description =
                                          strip(form.existing_item_description[i])]
                              ELSE db2.checklist_items[i]]]
             next_order == max_order_num(db3, task_id) + 1
             db4 == insert_edit_items(db3, task_id, form.new_item_description, 0,
                                      next_order)
         IN [db |-> renumber_items(db4, task_id),
             resp |-> [op |-> "edit_task", status |-> "redirect",
                       task |-> task_id, deleted |-> ids_to_delete]]

\* A faulty delete_task_handler: the row of the task only, as if the foreign
\* keys cascaded.
delete_task_handler_task_only(db, task_id) ==
    [db |-> [db EXCEPT !.tasks = Without(db.tasks, {task_id})],
     resp |-> [op |-> "delete_task", status |-> "redirect", task |-> task_id]]

\* delete_task_handler: the completions of the task's items, the items, the task.
delete_task_handler(db, task_id) ==
    LET db1 == delete_items(db, ItemIdsOfTask(db, task_id))
    IN [db |-> [db1 EXCEPT !.tasks = Without(db1.tasks, {task_id})],
        resp |-> [op |-> "delete_task", status |-> "redirect", task |-> task_id]]

\* update_tasks_visibility_handler: active = 1 ('show') or 0 (any other
\* action) for the submitted ids; nothing when no id was submitted.
update_tasks_visibility_handler(db, task_ids, action) ==
    [db |-> [db EXCEPT
               !.tasks = [t \in DOMAIN db.tasks |->
                            IF t \in task_ids
                            THEN [db.tasks[t] EXCEPT
                                    !.active = IF action = "show" THEN 1 ELSE 0]
                            ELSE db.tasks[t]]],
     resp |-> [op |-> "update_visibility"]]

\* A faulty complete_item_handler: the rows of the item in
\* checklist_completions are marked complete as well.
complete_item_handler_marks_periods(db, task_id, item_id) ==
    [db |-> [db EXCEPT
               !.checklist_items =
                   [i \in DOMAIN db.checklist_items |->
                      IF i = item_id /\ db.checklist_items[i].task_id = task_id
                      THEN [db.checklist_items[i] EXCEPT !.completed = 1]
                      ELSE db.checklist_items[i]],
               !.checklist_completions =
                   [k \in DOMAIN db.checklist_completions |->
                      IF k[1] = item_id
                      THEN [n \in 1..Len(db.checklist_completions[k]) |-> 1]
                      ELSE db.checklist_completions[k]]],
     resp |-> [op |-> "complete_item", status |-> "redirect", task |-> task_id,
               item |-> item_id]]

\* complete_item_handler: the legacy flag of the item of that task.
complete_item_handler(db, task_id, item_id) ==
    [db |-> [db EXCEPT
               !.checklist_items =
                   [i \in DOMAIN db.checklist_items |->
                      IF i = item_id /\ db.checklist_items[i].task_id = task_id
                      THEN [db.checklist_items[i] EXCEPT !.completed = 1]
                      ELSE db.checklist_items[i]]],
     resp |-> [op |-> "complete_item", status |-> "redirect", task |-> task_id,
               item |-> item_id]]

\* One round of the task loop of compose_email_handler (lines 942-955):
\* its is what get_items_with_completion gave for the first of st.task_ids.
email_task(st, its) ==
    [cc |-> its.cc, task_ids |-> Tail(st.task_ids),
     ret |-> Append(st.ret, [id |-> Head(st.task_ids), items |-> its.ret])]

\* The task loop of compose_email_handler; st holds the table (cc), the
\* tasks still to visit (task_ids) and the body so far (ret).
RECURSIVE email_tasks(_, _, _, _)
email_tasks(db, st, year, month) ==
    IF st.task_ids = <<>> THEN st
    ELSE email_tasks(
             db, email_task(st, get_items_with_completion(
                                    WithCompletions(db, st.cc), Head(st.task_ids),
                                    year, month)),
             year, month)

\* The page of compose_email_handler and the table its reads leave.
compose_email_page(db, company_id, year, month, body) ==
    [db |-> WithCompletions(db, body.cc),
     resp |-> [op |-> "compose_email", status |-> "ok", company |-> company_id,
               year |-> year, month |-> month, tasks |-> body.ret]]

\* compose_email_handler: 404 without a company id or for an unknown
\* company, else the company's tasks due in the month, each with its items
\* and their status for the period.
compose_email_handler(db, company_id, year, month) ==
    IF company_id = NoInt \/ company_id \notin DOMAIN db.companies
    THEN [db |-> db,
          resp |-> [op |-> "compose_email", status |-> "not_found",
                    company |-> company_id, year |-> year, month |-> month,
                    tasks |-> <<>>]]
    ELSE compose_email_page(
             db, company_id, year, month,
             email_tasks(db, [cc |-> db.checklist_completions,
                              task_ids |-> filter_company(
                                  db, get_tasks_for_month(db, month), company_id),
                              ret |-> <<>>],
                         year, month))

\* all_tasks_handler: the page of get_all_tasks; nothing is written.
all_tasks_handler(db) ==
    [db |-> db, resp |-> [op |-> "all_tasks", tasks |-> get_all_tasks(db)]]

(***************************************************************************)
(* Uploaded files.  A file field is [filename, data]; a field left empty   *)
(* has the empty filename.  The handlers below are the handlers above      *)
(* served with file fields: the rows are written as above, the files are   *)
(* saved under ATTACHMENTS_DIR and their names kept in the attachment      *)
(* column.                                                                 *)
(***************************************************************************)
\* The decimal digit of d, 0 <= d <= 9.
DigitChar(d) == CHOOSE c \in DigitChars : DigitValue(c) = d

\* str(n) for n >= 0, as an f-string formats an int.
RECURSIVE py_str(_)
py_str(n) ==
    IF n < 10 THEN <<DigitChar(n)>> ELSE py_str(n \div 10) \o <<DigitChar(n % 10)>>

\* f"{int(datetime.now().timestamp())}_{idx}_{file_field.filename}" (line 624)
\* and f"{...}_{item_id}_{fs.filename}" (line 792); now is the clock's second.
unique_name(now, idx, filename) ==
    py_str(now) \o <<"_">> \o py_str(idx) \o <<"_">> \o filename

\* f"{int(datetime.now().timestamp())}_new_{idx}_{fs.filename}"  (line 842)
unique_name_new(now, idx, filename) ==
    py_str(now) \o <<"_", "n", "e", "w", "_">> \o py_str(idx) \o <<"_">> \o filename

\* with open(save_path, 'wb') as f: f.write(data): the file is created or
\* overwritten; the name is then stored in the item's attachment column.
store_attachment(db, item_id, name, data) ==
    [db EXCEPT
       !.attachments = [x \in (DOMAIN db.attachments) \cup {name} |->
                          IF x = name THEN data ELSE db.attachments[x]],
       !.checklist_items[item_id].attachment = name]

\* Lines 794-803: the new file is written, then the file of the item's old
\* attachment, if it has one, is unlinked (a missing file is ignored).
replace_attachment(db, item_id, name, data) ==
    LET old_path == db.checklist_items[item_id].attachment
        written == store_attachment(db, item_id, name, data)
    IN IF old_path = <<>> THEN written
       ELSE [written EXCEPT !.attachments = Without(written.attachments, {old_path})]

\* The files of new_task_post_handler's loop (lines 618-630): the row idx
\* whose description is not blank and that came with a file gets the file.
RECURSIVE store_item_files(_, _, _, _, _, _)
store_item_files(db, task_id, descriptions, file_map, now, idx) ==
    IF idx >= Len(descriptions) THEN db
    ELSE IF \/ strip(descriptions[idx + 1]) = <<>>
            \/ idx \notin DOMAIN file_map
            \/ file_map[idx].filename = <<>>
         THEN store_item_files(db, task_id, descriptions, file_map, now, idx + 1)
         ELSE store_item_files(
                  store_attachment(
                      db,
                      CHOOSE i \in ItemIdsOfTask(db, task_id) :
                          db.checklist_items[i].order_num = idx,
                      unique_name(now, idx, file_map[idx].filename),
                      file_map[idx].data),
                  task_id, descriptions, file_map, now, idx + 1)

\* new_task_post_handler with the files of file_map (row index -> file).
new_task_post_handler_files(db, form, file_map, now) ==
    [db |-> store_item_files(new_task_post_handler(db, form).db,
                             new_task_post_handler(db, form).resp.task,
                             form.item_description, file_map, now, 0),
     resp |-> new_task_post_handler(db, form).resp]

\* The files of the loop over existing_items (lines 778-805): an item that
\* is not ticked for deletion and came with a file gets the file.
RECURSIVE replace_item_files(_, _, _, _, _)
replace_item_files(db, item_ids, form, existing_file_map, now) ==
    IF item_ids = <<>> THEN db
    ELSE LET item_id == Head(item_ids)
         IN IF \/ item_id \in form.delete_item
               \/ item_id \notin DOMAIN existing_file_map
               \/ existing_file_map[item_id].filename = <<>>
            THEN replace_item_files(db, Tail(item_ids), form, existing_file_map, now)
            ELSE replace_item_files(
                     replace_attachment(
                         db, item_id,
                         unique_name(now, item_id, existing_file_map[item_id].filename),
                         existing_file_map[item_id].data),
                     Tail(item_ids), form, existing_file_map, now)

\* The files of the loop over new_item_description (lines 838-846): the row
\* idx whose description is not blank gets new_files[idx], if there is one;
\* first_id is the id of the first item the loop inserted.
RECURSIVE store_new_item_files(_, _, _, _, _, _)
store_new_item_files(db, first_id, new_descriptions, new_files, now, idx) ==
    IF idx >= Len(new_descriptions) THEN db
    ELSE IF strip(new_descriptions[idx + 1]) = <<>>
         THEN store_new_item_files(db, first_id, new_descriptions, new_files, now,
                                   idx + 1)
         ELSE IF idx >= Len(new_files) \/ new_files[idx + 1].filename = <<>>
              THEN store_new_item_files(db, first_id + 1, new_descriptions, new_files,
                                        now, idx + 1)
              ELSE store_new_item_files(
                       store_attachment(db, first_id,
                                        unique_name_new(now, idx,
                                                        new_files[idx + 1].filename),
                                        new_files[idx + 1].data),
                       first_id + 1, new_descriptions, new_files, now, idx + 1)

\* edit_task_post_handler with the files existing_item_file_<id>
\* (existing_file_map: item id -> file) and new_item_file (new_files).
edit_task_post_handler_files(db, task_id, form, existing_file_map, new_files, now) ==
    IF task_id \notin DOMAIN db.tasks THEN edit_task_post_handler(db, task_id, form)
    ELSE LET db1 == replace_item_files(
                        db, OrderByOrderNum(db.checklist_items,
                                            ItemIdsOfTask(db, task_id)),
                        form, existing_file_map, now)
             r == edit_task_post_handler(db1, task_id, form)
         IN [db |-> store_new_item_files(r.db, db.sqlite_sequence.checklist_items + 1,
                                         form.new_item_description, new_files, now, 0),
             resp |-> r.resp]

\* filename.split('_', 2): the text is cut at its first two underscores.
RECURSIVE split_underscore(_, _, _)
split_underscore(s, cur, acc) ==
    IF s = <<>> THEN Append(acc, cur)
    ELSE IF Head(s) = "_" /\ Len(acc) < 2
         THEN split_underscore(Tail(s), <<>>, Append(acc, cur))
         ELSE split_underscore(Tail(s), Append(cur, Head(s)), acc)

\* attachments_handler: 404 when ATTACHMENTS_DIR has no such file, else the
\* file's content and the name of the download, parts[2] of the file name
\* (the whole name when it has fewer than three parts).
attachments_handler(db, filename) ==
    IF filename \notin DOMAIN db.attachments
    THEN [db |-> db, resp |-> [op |-> "attachment", status |-> "not_found",
                               filename |-> filename, original_name |-> <<>>,
                               data |-> ""]]
    ELSE LET parts == split_underscore(filename, <<>>, <<>>)
         IN [db |-> db,
             resp |-> [op |-> "attachment", status |-> "ok", filename |-> filename,
                       original_name |-> IF Len(parts) > 2 THEN parts[3] ELSE filename,
                       data |-> db.attachments[filename]]]

(***************************************************************************)
(* The parameters of a request as the handlers read them from the query    *)
(* string or the form: a parameter is absent or a text.                    *)
(***************************************************************************)
NoParam == [present |-> FALSE, text |-> <<>>]

Param(text) == [present |-> TRUE, text |-> text]

\* datetime.now(): the clock stands at June 2025 while the model runs.
NowYear == 2025
NowMonth == 6

\* try: int(params.get(name, [default])[0])  except ValueError: default
int_or_default(p, default) ==
    IF p.present /\ py_int(p.text).ok THEN py_int(p.text).val ELSE default

\* application's except clause: 500 Internal Server Error; what the handler
\* had not committed is lost.
server_error(db, exc) ==
    [db |-> db, resp |-> [op |-> "error", status |-> "error", exc |-> exc]]

\* dashboard_handler from its query string (lines 423-443): month and year
\* default to the clock, an empty or non-numeric company is no filter.
dashboard_handler_environ(db, query) ==
    dashboard_handler(db, int_or_default(query.month, NowMonth),
                      int_or_default(query.year, NowYear),
                      IF query.company.present /\ query.company.text # <<>>
                      THEN int_or_default(query.company, NoInt) ELSE NoInt)

\* task_detail_handler from its query string (lines 986-994).
task_detail_handler_environ(db, task_id, query) ==
    task_detail_handler(db, task_id, int_or_default(query.year, NowYear),
                        int_or_default(query.month, NowMonth))

\* toggle_item_handler from its form (lines 1046-1055).
toggle_item_handler_environ(db, task_id, item_id, form) ==
    toggle_item_handler(db, task_id, item_id, int_or_default(form.year, NowYear),
                        int_or_default(form.month, NowMonth))

\* compose_email_handler from its query string (lines 906-921): a missing or
\* non-numeric company is None.
compose_email_handler_environ(db, query) ==
    compose_email_handler(db, int_or_default(query.company, NoInt),
                          int_or_default(query.year, NowYear),
                          int_or_default(query.month, NowMonth))

\* update_tasks_visibility_handler from its form (lines 1096-1103): the
\* task_ids that are not numbers are skipped.
update_tasks_visibility_handler_environ(db, id_strings, action) ==
    update_tasks_visibility_handler(
        db, {py_int(id_strings[n]).val :
               n \in {x \in 1..Len(id_strings) : py_int(id_strings[x]).ok}},
        action)

\* new_task_post_handler from its form (line 573):
\* int(form_fields.get('company_id', ['0'])[0]), ValueError not caught.
new_task_post_handler_environ(db, company_id, form) ==
    IF company_id.present /\ ~py_int(company_id.text).ok
    THEN server_error(db, "ValueError")
    ELSE new_task_post_handler(db, [form EXCEPT !.company_id =
                                                    int_or_default(company_id, 0)])

\* edit_task_post_handler from its form (lines 696-702): a missing or
\* non-numeric company_id is None.
edit_task_post_handler_environ(db, task_id, company_id, form) ==
    edit_task_post_handler(db, task_id,
                           [form EXCEPT !.company_id = int_or_default(company_id, NoInt)])

(***************************************************************************)
(* The requests of the model.  The server of Spec is wsgiref's              *)
(* single-threaded one: a handler runs when no response is pending, and    *)
(* the response is then sent.                                              *)
(***************************************************************************)
\* The periods (year, month) that requests name: of the dashboard, of the
\* task page, of the toggle.
DashboardPeriods == {<<2025, 6>>, <<2025, 7>>}
DetailPeriods == {<<2025, 6>>}
TogglePeriods == {<<2025, 6>>}
\* The periods named when one task is followed over several periods.
AllPeriods == {<<2025, 6>>, <<2025, 7>>, <<2026, 6>>}

\* The company filter of the dashboard: none, or a company id.
CompanyFilterInputs == {NoInt} \cup (1..MaxCompanies)
TaskIdInputs == 1..MaxTasks
\* Item ids of requests: every id the table can hand out.
ItemIdInputs == 1..MaxItems

\* The item ids of the legacy 'complete' requests.
CompleteItemInputs == {1}

\* The new-task forms submitted.  company_id 0 is the default of a missing
\* field and names no company.
TaskFormInputs ==
    {[company_id |-> 1, schedule_type |-> "monthly", schedule_detail |-> <<>>,
      item_description |-> [i \in 1..MaxItems |-> <<"a">>]],
     [company_id |-> 1, schedule_type |-> "custom", schedule_detail |-> <<"6">>,
      item_description |-> <<>>],
     [company_id |-> 0, schedule_type |-> "monthly", schedule_detail |-> <<>>,
      item_description |-> << <<" ">>, <<"a">> >>],
     [company_id |-> 1, schedule_type |-> "quarterly",
      schedule_detail |-> <<"x", ",", "7">>,
      item_description |-> << <<"a">> >>]}

\* The edit forms submitted: items ticked for deletion, one item added.
EditFormInputs ==
    {[company_id |-> NoInt, schedule_type |-> "", schedule_detail |-> <<>>,
      delete_item |-> {i}, existing_item_description |-> EmptyTable,
      new_item_description |-> <<>>] : i \in ItemIdInputs}
    \cup
    {[company_id |-> NoInt, schedule_type |-> "", schedule_detail |-> <<>>,
      delete_item |-> {}, existing_item_description |-> EmptyTable,
      new_item_description |-> << <<"a">> >>]}

\* The number of non-blank descriptions of a list.
NonBlank(descriptions) ==
    Cardinality({i \in 1..Len(descriptions) : strip(descriptions[i]) # <<>>})

\* No request is being served step by step.
IdleWorker ==
    [pc |-> "idle", op |-> "none", year |-> 0, month |-> 0, todo |-> <<>>,
     current_status |-> NoInt, items |-> <<>>, outcome |-> "none"]

NoResponse == [op |-> "none"]

\* A transaction is committed and the files written are in place, within
\* the second of the clock.
CommitDb(db) ==
    /\ companies' = db.companies
    /\ tasks' = db.tasks
    /\ checklist_items' = db.checklist_items
    /\ checklist_completions' = db.checklist_completions
    /\ sqlite_sequence' = db.sqlite_sequence
    /\ attachments' = db.attachments
    /\ clock' = clock

\* The handler's work is committed and its response is ready.
Commit(r) == CommitDb(r.db) /\ resp' = r.resp

\* The single-threaded server takes the next request.
Accepting == resp = NoResponse /\ \A w \in DOMAIN workers : workers[w] = IdleWorker

NewCompany ==
    /\ Accepting
    /\ sqlite_sequence.companies < MaxCompanies
    /\ Commit(new_company_post_handler(Db, <<"c">>))
    /\ UNCHANGED workers

NewTask ==
    \E form \in TaskFormInputs :
        /\ Accepting
        /\ sqlite_sequence.tasks < MaxTasks
        /\ sqlite_sequence.checklist_items + NonBlank(form.item_description) <= MaxItems
        /\ Commit(new_task_post_handler(Db, form))
        /\ UNCHANGED workers

Dashboard ==
    \E p \in DashboardPeriods, c \in CompanyFilterInputs :
        /\ Accepting
        /\ Commit(dashboard_handler(Db, p[2], p[1], c))
        /\ UNCHANGED workers

\* GET /task/<id>?year=&month= with the period in periods.
TaskDetailIn(periods) ==
    \E t \in TaskIdInputs, p \in periods :
        /\ Accepting
        /\ Commit(task_detail_handler(Db, t, p[1], p[2]))
        /\ UNCHANGED workers

TaskDetail == TaskDetailIn(DetailPeriods)

\* POST /task/<task>/toggle/<item> with the period (year, month) in periods.
ToggleIn(periods) ==
    \E t \in TaskIdInputs, i \in ItemIdInputs, p \in periods :
        /\ Accepting
        /\ Commit(toggle_item_handler(Db, t, i, p[1], p[2]))
        /\ UNCHANGED workers

Toggle == ToggleIn(TogglePeriods)

EditTask ==
    \E t \in TaskIdInputs, form \in EditFormInputs :
        /\ Accepting
        /\ sqlite_sequence.checklist_items + NonBlank(form.new_item_description)
               <= MaxItems
        /\ Commit(edit_task_post_handler(Db, t, form))
        /\ UNCHANGED workers

DeleteTask ==
    \E t \in TaskIdInputs :
        /\ Accepting
        /\ Commit(delete_task_handler(Db, t))
        /\ UNCHANGED workers

UpdateVisibility ==
    \E t \in TaskIdInputs, action \in {"hide", "show"} :
        /\ Accepting
        /\ Commit(update_tasks_visibility_handler(Db, {t}, action))
        /\ UNCHANGED workers

\* POST /task/<task>/complete/<item>: the legacy action.
CompleteItemIn(item_ids) ==
    \E t \in TaskIdInputs, i \in item_ids :
        /\ Accepting
        /\ Commit(complete_item_handler(Db, t, i))
        /\ UNCHANGED workers

CompleteItem == CompleteItemIn(CompleteItemInputs)

\* GET /email/compose?company=&year=&month=
ComposeEmail ==
    \E c \in CompanyFilterInputs, p \in DashboardPeriods :
        /\ Accepting
        /\ Commit(compose_email_handler(Db, c, p[1], p[2]))
        /\ UNCHANGED workers

\* GET /all
AllTasks ==
    /\ Accepting
    /\ Commit(all_tasks_handler(Db))
    /\ UNCHANGED workers

\* The response is sent; the server is free for the next request.
SendResponse ==
    /\ resp # NoResponse
    /\ resp' = NoResponse
    /\ UNCHANGED <<dbvars, clock, workers>>

Init ==
    /\ companies = init_db.companies
    /\ tasks = init_db.tasks
    /\ checklist_items = init_db.checklist_items
    /\ checklist_completions = init_db.checklist_completions
    /\ sqlite_sequence = init_db.sqlite_sequence
    /\ attachments = init_db.attachments
    /\ clock = 0
    /\ resp = NoResponse
    /\ workers = [w \in 1..NumWorkers |-> IdleWorker]

Next ==
    \/ NewCompany
    \/ NewTask
    \/ Dashboard
    \/ TaskDetail
    \/ Toggle
    \/ EditTask
    \/ DeleteTask
    \/ UpdateVisibility
    \/ CompleteItem
    \/ ComposeEmail
    \/ AllTasks
    \/ SendResponse

Spec == Init /\ [][Next]_vars

(***************************************************************************)
(* Requests served concurrently.  Each request has its own connections;    *)
(* a step is one SQL statement (with its commit) of the handler.           *)
(*   toggle_item_handler:  SELECT, [INSERT], UPDATE                        *)
(*   task_detail_handler:  SELECT task, SELECT items, then per item        *)
(*                         SELECT, [INSERT]                                *)
(* An exception ends the request in application's except clause: 500.      *)
(* edit_task_post_handler and delete_task_handler are one transaction      *)
(* each, committed at their end.                                           *)
(***************************************************************************)
RacePeriods == {<<2025, 6>>}

\* The database the concurrent requests start from: one company and one
\* monthly task with MaxItems checklist items, as the handlers create them.
race_db ==
    new_task_post_handler(
        new_company_post_handler(init_db, <<"c">>).db,
        [company_id |-> 1, schedule_type |-> "monthly", schedule_detail |-> <<>>,
         item_description |-> [i \in 1..MaxItems |-> <<"a">>]]).db

SetWorker(w, rec) == workers' = [workers EXCEPT ![w] = rec]

\* toggle_item_handler is entered: ensure_completion(item_id, year, month).
StartToggle(w) ==
    \E i \in ItemIdInputs, p \in RacePeriods :
        /\ workers[w].pc = "idle"
        /\ SetWorker(w, [IdleWorker EXCEPT !.pc = "select", !.op = "toggle",
                                           !.year = p[1], !.month = p[2],
                                           !.todo = <<i>>])
        /\ UNCHANGED <<dbvars, clock, resp>>

\* task_detail_handler is entered.
StartTaskDetail(w) ==
    \E t \in TaskIdInputs, p \in RacePeriods :
        /\ workers[w].pc = "idle"
        /\ SetWorker(w, [IdleWorker EXCEPT !.pc = "select_task", !.op = "task_detail",
                                           !.year = p[1], !.month = p[2],
                                           !.todo = <<t>>])
        /\ UNCHANGED <<dbvars, clock, resp>>

\* Lines 997-1008: the task JOINed with its company, or 404.
SelectTask(w) ==
    LET t == workers[w].todo[1]
    IN /\ workers[w].pc = "select_task"
       /\ IF t \in DOMAIN tasks /\ tasks[t].company_id \in DOMAIN companies
          THEN SetWorker(w, [workers[w] EXCEPT !.pc = "select_items"])
          ELSE SetWorker(w, [workers[w] EXCEPT !.pc = "done", !.todo = <<>>,
                                               !.outcome = "not_found"])
       /\ UNCHANGED <<dbvars, clock, resp>>

\* Lines 311-316: the item ids of the task, by order_num.
SelectItems(w) ==
    LET ids == OrderByOrderNum(checklist_items, ItemIdsOfTask(Db, workers[w].todo[1]))
    IN /\ workers[w].pc = "select_items"
       /\ IF ids = <<>>
          THEN SetWorker(w, [workers[w] EXCEPT !.pc = "done", !.todo = <<>>,
                                               !.outcome = "ok"])
          ELSE SetWorker(w, [workers[w] EXCEPT !.pc = "select", !.todo = ids])
       /\ UNCHANGED <<dbvars, clock, resp>>

\* ensure_completion has returned status for the first item of todo.
AfterEnsure(rec, status) ==
    IF rec.op = "toggle"
    THEN [rec EXCEPT !.pc = "update", !.current_status = status]
    ELSE LET result == Append(rec.items, [id |-> rec.todo[1], completed |-> status])
         IN IF Len(rec.todo) = 1
            THEN [rec EXCEPT !.pc = "done", !.todo = <<>>, !.items = result,
                             !.outcome = "ok"]
            ELSE [rec EXCEPT !.pc = "select", !.todo = Tail(rec.todo),
                             !.items = result]

\* Lines 263-270: the SELECT of ensure_completion.
EnsureSelect(w) ==
    LET rec == workers[w]
        row == SelectCompleted(checklist_completions,
                               <<rec.todo[1], rec.year, rec.month>>)
    IN /\ rec.pc = "select"
       /\ IF row # NoInt
          THEN SetWorker(w, AfterEnsure(rec, row))
          ELSE SetWorker(w, [rec EXCEPT !.pc = "insert"])
       /\ UNCHANGED <<dbvars, clock, resp>>

\* Lines 272-278: the INSERT of ensure_completion and its commit.  An
\* IntegrityError is not caught before application's except clause.
EnsureInsert(w) ==
    LET rec == workers[w]
        ins == InsertCompletion(checklist_completions,
                                <<rec.todo[1], rec.year, rec.month>>, 0)
    IN /\ rec.pc = "insert"
       /\ checklist_completions' = ins.cc
       /\ IF ins.ok
          THEN SetWorker(w, AfterEnsure(rec, 0))
          ELSE SetWorker(w, [rec EXCEPT !.pc = "done", !.outcome = "error"])
       /\ UNCHANGED <<companies, tasks, checklist_items, sqlite_sequence, attachments,
                    clock, resp>>

\* Lines 1060-1069: the UPDATE of toggle_item_handler and its commit.
ToggleUpdate(w) ==
    LET rec == workers[w]
    IN /\ rec.pc = "update"
       /\ checklist_completions' =
              toggle_update(checklist_completions,
                            <<rec.todo[1], rec.year, rec.month>>,
                            new_status_of(rec.current_status))
       /\ SetWorker(w, [rec EXCEPT !.pc = "done", !.outcome = "redirect"])
       /\ UNCHANGED <<companies, tasks, checklist_items, sqlite_sequence, attachments,
                    clock, resp>>

\* The response of the request is sent.
Finish(w) ==
    /\ workers[w].pc = "done"
    /\ SetWorker(w, IdleWorker)
    /\ UNCHANGED <<dbvars, clock, resp>>

\* An edit that deletes one item, committed while other requests run.
RaceEditTask ==
    \E t \in TaskIdInputs, i \in ItemIdInputs :
        /\ i \in ItemIdsOfTask(Db, t)
        /\ CommitDb(edit_task_post_handler(Db, t,
               [company_id |-> NoInt, schedule_type |-> "", schedule_detail |-> <<>>,
                delete_item |-> {i}, existing_item_description |-> EmptyTable,
                new_item_description |-> <<>>]).db)
        /\ UNCHANGED <<resp, workers>>

\* A task deletion committed while other requests run.
RaceDeleteTask ==
    \E t \in DOMAIN tasks :
        /\ CommitDb(delete_task_handler(Db, t).db)
        /\ UNCHANGED <<resp, workers>>

\* A dashboard request (views and statistics) served between two steps of
\* the other requests.
RaceDashboard ==
    \E p \in RacePeriods :
        /\ CommitDb(dashboard_handler(Db, p[2], p[1], NoInt).db)
        /\ UNCHANGED <<resp, workers>>

InitRace ==
    /\ companies = race_db.companies
    /\ tasks = race_db.tasks
    /\ checklist_items = race_db.checklist_items
    /\ checklist_completions = race_db.checklist_completions
    /\ sqlite_sequence = race_db.sqlite_sequence
    /\ attachments = race_db.attachments
    /\ clock = 0
    /\ resp = NoResponse
    /\ workers = [w \in 1..NumWorkers |-> IdleWorker]

NextRace ==
    \/ \E w \in 1..NumWorkers :
          \/ StartToggle(w)
          \/ StartTaskDetail(w)
          \/ SelectTask(w)
          \/ SelectItems(w)
          \/ EnsureSelect(w)
          \/ EnsureInsert(w)
          \/ ToggleUpdate(w)
          \/ Finish(w)
    \/ RaceEditTask
    \/ RaceDeleteTask
    \/ RaceDashboard

SpecRace == InitRace /\ [][NextRace]_vars

(***************************************************************************)
(* One installed task followed over several periods by the single-threaded *)
(* server: its items are toggled and its page is read, period by period.   *)
(***************************************************************************)
TogglePeriod == ToggleIn(AllPeriods)

DetailPeriod == TaskDetailIn(AllPeriods)

NextPeriods ==
    \/ TogglePeriod
    \/ DetailPeriod
    \/ SendResponse

SpecPeriods == InitRace /\ [][NextPeriods]_vars

(***************************************************************************)
(* Two installed tasks whose checklists are edited by the single-threaded  *)
(* server: items are deleted, renamed and added in one edit, between       *)
(* toggles, legacy 'complete' requests and reads of the task page.         *)
(***************************************************************************)
\* The database the edits start from: one company, task 1 (monthly) with
\* the items 1 and 2 at order_num 0 and 1, task 2 (custom, June) without
\* items, its only description having been blank.
edit_db ==
    new_task_post_handler(
        new_task_post_handler(
            new_company_post_handler(init_db, <<"c">>).db,
            [company_id |-> 1, schedule_type |-> "monthly", schedule_detail |-> <<>>,
             item_description |-> << <<"a">>, <<"b">> >>]).db,
        [company_id |-> 1, schedule_type |-> "custom", schedule_detail |-> <<"6">>,
         item_description |-> << <<" ">> >>]).db

\* The edit forms of the checklist editor: the items ticked for deletion
\* (delete_item_<id>), a new description for item 2 or none, and the
\* descriptions of the rows added, a blank one among them.
EditItemForms ==
    {[company_id |-> NoInt, schedule_type |-> "", schedule_detail |-> <<>>,
      delete_item |-> d, existing_item_description |-> e,
      new_item_description |-> n] :
        d \in {{}, {1}, {2}, {1, 3}},
        e \in {EmptyTable, [i \in {2} |-> <<"z", " ">>]},
        n \in {<<>>, << <<"c">> >>, << <<" ">>, <<"c">>, <<"d">> >>}}

\* The periods of the task page between edits.
EditPeriods == {<<2025, 6>>, <<2025, 7>>}

EditItems ==
    \E t \in TaskIdInputs, form \in EditItemForms :
        /\ Accepting
        /\ sqlite_sequence.checklist_items + NonBlank(form.new_item_description)
               <= MaxEditItems
        /\ Commit(edit_task_post_handler(Db, t, form))
        /\ UNCHANGED workers

DetailEdit == TaskDetailIn(EditPeriods)

InitEdit ==
    /\ companies = edit_db.companies
    /\ tasks = edit_db.tasks
    /\ checklist_items = edit_db.checklist_items
    /\ checklist_completions = edit_db.checklist_completions
    /\ sqlite_sequence = edit_db.sqlite_sequence
    /\ attachments = edit_db.attachments
    /\ clock = 0
    /\ resp = NoResponse
    /\ workers = [w \in 1..NumWorkers |-> IdleWorker]

NextEdit ==
    \/ EditItems
    \/ CompleteItem
    \/ Toggle
    \/ DetailEdit
    \/ SendResponse

SpecEdit == InitEdit /\ [][NextEdit]_vars

(***************************************************************************)
(* The two installed tasks are hidden and shown again, several at once,    *)
(* between toggles and dashboards.                                         *)
(***************************************************************************)
\* POST /tasks/update with any set of task ids, none included.
HideOrShow ==
    \E ids \in SUBSET TaskIdInputs, action \in {"hide", "show"} :
        /\ Accepting
        /\ Commit(update_tasks_visibility_handler(Db, ids, action))
        /\ UNCHANGED workers

NextVisibility ==
    \/ HideOrShow
    \/ Toggle
    \/ Dashboard
    \/ SendResponse

SpecVisibility == InitEdit /\ [][NextVisibility]_vars

(***************************************************************************)
(* The schedule of a task: a task is entered with any schedule_type and    *)
(* any text as schedule_detail (neither is validated), next to a monthly   *)
(* task, and the dashboard of a month, 1..12 or not, is requested.         *)
(***************************************************************************)
ScheduleTypes == {"monthly", "quarterly", "custom"}

\* The characters of the schedule_detail texts tried exhaustively.
DetailChars == {"1", "3", "a", ",", " "}

\* The schedule_detail texts: every text of up to MaxDetailLen characters,
\* '1,4,7,10' and 'abc,13,0,5'.
ScheduleDetails ==
    UNION {[1..n -> DetailChars] : n \in 0..MaxDetailLen}
    \cup {<<"1", ",", "4", ",", "7", ",", "1", "0">>,
          <<"a", "b", "c", ",", "1", "3", ",", "0", ",", "5">>}

\* The database after the company, a task with the given schedule and a
\* monthly task with schedule_detail '3' were entered, all without items.
schedule_db(schedule_type, schedule_detail) ==
    new_task_post_handler(
        new_task_post_handler(
            new_company_post_handler(init_db, <<"c">>).db,
            [company_id |-> 1, schedule_type |-> schedule_type,
             schedule_detail |-> schedule_detail, item_description |-> <<>>]).db,
        [company_id |-> 1, schedule_type |-> "monthly", schedule_detail |-> <<"3">>,
         item_description |-> <<>>]).db

\* The months of the dashboard requests: int(query 'month') is not checked.
MonthInputs == 0..13

\* GET /?month=&year= for any month.
DashboardMonth ==
    \E m \in MonthInputs :
        /\ Accepting
        /\ Commit(dashboard_handler(Db, m, 2025, NoInt))
        /\ UNCHANGED workers

InitSchedule ==
    \E schedule_type \in ScheduleTypes, schedule_detail \in ScheduleDetails :
        /\ companies = schedule_db(schedule_type, schedule_detail).companies
        /\ tasks = schedule_db(schedule_type, schedule_detail).tasks
        /\ checklist_items = schedule_db(schedule_type, schedule_detail).checklist_items
        /\ checklist_completions
             = schedule_db(schedule_type, schedule_detail).checklist_completions
        /\ sqlite_sequence = schedule_db(schedule_type, schedule_detail).sqlite_sequence
        /\ attachments = schedule_db(schedule_type, schedule_detail).attachments
        /\ clock = 0
        /\ resp = NoResponse
        /\ workers = [w \in 1..NumWorkers |-> IdleWorker]

NextSchedule ==
    \/ DashboardMonth
    \/ UpdateVisibility
    \/ SendResponse

SpecSchedule == InitSchedule /\ [][NextSchedule]_vars

(***************************************************************************)
(* Toggle requests served concurrently on rows that exist already: the     *)
(* task page of the period was read before, so ensure_completion finds the *)
(* row of every item and inserts nothing.                                  *)
(***************************************************************************)
\* The database of race_db after GET /task/1 for each period of RacePeriods.
toggles_db ==
    task_detail_handler(race_db, 1, 2025, 6).db

InitToggles ==
    /\ companies = toggles_db.companies
    /\ tasks = toggles_db.tasks
    /\ checklist_items = toggles_db.checklist_items
    /\ checklist_completions = toggles_db.checklist_completions
    /\ sqlite_sequence = toggles_db.sqlite_sequence
    /\ attachments = toggles_db.attachments
    /\ clock = 0
    /\ resp = NoResponse
    /\ workers = [w \in 1..NumWorkers |-> IdleWorker]

NextToggles ==
    \E w \in 1..NumWorkers :
        \/ StartToggle(w)
        \/ EnsureSelect(w)
        \/ ToggleUpdate(w)
        \/ Finish(w)

SpecToggles == InitToggles /\ [][NextToggles]_vars

(***************************************************************************)
(* The descriptions of checklist items: tasks are entered and edited with  *)
(* descriptions that are blank, padded with spaces or plain.               *)
(***************************************************************************)
\* The database after the company was entered.
company_db == new_company_post_handler(init_db, <<"c">>).db

\* The new-task forms of the checklist: item_description lists with empty,
\* blank and padded descriptions.
NewItemForms ==
    {[company_id |-> 1, schedule_type |-> "monthly", schedule_detail |-> <<>>,
      item_description |-> d] :
        d \in {<<>>,
               << <<" ">> >>,
               << <<" ">>, <<"a">> >>,
               << <<"a">>, <<>>, <<" ", "b", " ">> >>}}

\* POST /task/new with the forms of NewItemForms.
NewTaskItems ==
    \E form \in NewItemForms :
        /\ Accepting
        /\ sqlite_sequence.tasks < MaxTasks
        /\ sqlite_sequence.checklist_items + NonBlank(form.item_description)
               <= MaxEditItems
        /\ Commit(new_task_post_handler(Db, form))
        /\ UNCHANGED workers

InitDescriptions ==
    /\ companies = company_db.companies
    /\ tasks = company_db.tasks
    /\ checklist_items = company_db.checklist_items
    /\ checklist_completions = company_db.checklist_completions
    /\ sqlite_sequence = company_db.sqlite_sequence
    /\ attachments = company_db.attachments
    /\ clock = 0
    /\ resp = NoResponse
    /\ workers = [w \in 1..NumWorkers |-> IdleWorker]

NextDescriptions ==
    \/ NewTaskItems
    \/ EditItems
    \/ SendResponse

SpecDescriptions == InitDescriptions /\ [][NextDescriptions]_vars

(***************************************************************************)
(* Requests whose numeric parameters are absent, empty, not a number or a  *)
(* number, served by the single-threaded server from one installed task.   *)
(***************************************************************************)
\* The texts submitted as month, company id and task id.
ParamTexts == {<<>>, <<"x">>, <<"1">>}

ParamInputs == {NoParam} \cup {Param(t) : t \in ParamTexts}

\* The year parameters: absent or not a number.
YearInputs == {NoParam, Param(<<"x">>)}

\* GET /?month=&year=&company=
DashboardParams ==
    \E month \in ParamInputs, year \in YearInputs, company \in ParamInputs :
        /\ Accepting
        /\ Commit(dashboard_handler_environ(
                      Db, [month |-> month, year |-> year, company |-> company]))
        /\ UNCHANGED workers

\* GET /task/<id>?year=&month=
TaskDetailParams ==
    \E t \in TaskIdInputs, month \in ParamInputs, year \in YearInputs :
        /\ Accepting
        /\ Commit(task_detail_handler_environ(Db, t, [month |-> month, year |-> year]))
        /\ UNCHANGED workers

\* POST /task/<task>/toggle/<item> with the form fields year and month.
ToggleParams ==
    \E t \in TaskIdInputs, i \in ItemIdInputs, month \in ParamInputs,
       year \in YearInputs :
        /\ Accepting
        /\ Commit(toggle_item_handler_environ(Db, t, i,
                                              [month |-> month, year |-> year]))
        /\ UNCHANGED workers

\* GET /email/compose?company=&year=&month=
ComposeEmailParams ==
    \E month \in ParamInputs, year \in YearInputs, company \in ParamInputs :
        /\ Accepting
        /\ Commit(compose_email_handler_environ(
                      Db, [month |-> month, year |-> year, company |-> company]))
        /\ UNCHANGED workers

\* POST /tasks/update with up to two task_ids fields.
VisibilityParams ==
    \E id_strings \in UNION {[1..n -> ParamTexts] : n \in 0..2},
       action \in {"hide", "show"} :
        /\ Accepting
        /\ Commit(update_tasks_visibility_handler_environ(Db, id_strings, action))
        /\ UNCHANGED workers

\* POST /task/new with the form field company_id.
NewTaskParams ==
    \E company_id \in ParamInputs :
        /\ Accepting
        /\ sqlite_sequence.tasks < MaxTasks
        /\ Commit(new_task_post_handler_environ(
                      Db, company_id,
                      [company_id |-> 0, schedule_type |-> "monthly",
                       schedule_detail |-> <<>>, item_description |-> <<>>]))
        /\ UNCHANGED workers

\* POST /task/<id>/edit with the form field company_id, the checklist left
\* as it is.
EditTaskParams ==
    \E t \in TaskIdInputs, company_id \in ParamInputs :
        /\ Accepting
        /\ Commit(edit_task_post_handler_environ(
                      Db, t, company_id,
                      [company_id |-> NoInt, schedule_type |-> "",
                       schedule_detail |-> <<>>, delete_item |-> {},
                       existing_item_description |-> EmptyTable,
                       new_item_description |-> <<>>]))
        /\ UNCHANGED workers

NextParams ==
    \/ DashboardParams
    \/ TaskDetailParams
    \/ ToggleParams
    \/ ComposeEmailParams
    \/ VisibilityParams
    \/ NewTaskParams
    \/ EditTaskParams
    \/ SendResponse

SpecParams == InitRace /\ [][NextParams]_vars

(***************************************************************************)
(* Files are uploaded with new tasks, for existing items and with new      *)
(* items, and downloaded, while the clock advances second by second:       *)
(* several requests can be served within one second.                       *)
(***************************************************************************)
\* The seconds of the clock after the first.
MaxClock == 1

\* The original names of the files uploaded.
FileNames == {<<"f">>, <<"a", "_", "b">>}

\* The file fields submitted: a file of either name and content, or none.
FileInputs ==
    {[filename |-> n, data |-> d] : n \in FileNames, d \in {"p", "q"}}
    \cup {[filename |-> <<>>, data |-> ""]}

\* The database the uploads start from: the company and a task with one
\* item that has no attachment.
upload_db ==
    new_task_post_handler(
        company_db,
        [company_id |-> 1, schedule_type |-> "monthly", schedule_detail |-> <<>>,
         item_description |-> << <<"a">> >>]).db

\* POST /task/new with one checklist row and its file field.
UploadNewTask ==
    \E file \in FileInputs :
        /\ Accepting
        /\ sqlite_sequence.tasks < MaxTasks
        /\ sqlite_sequence.checklist_items <= MaxItems
        /\ Commit(new_task_post_handler_files(
                      Db, [company_id |-> 1, schedule_type |-> "monthly",
                           schedule_detail |-> <<>>,
                           item_description |-> << <<"a">> >>],
                      [idx \in {0} |-> file], clock))
        /\ UNCHANGED workers

\* The edit form with nothing ticked and nothing renamed.
EditFilesForm(new_item_description) ==
    [company_id |-> NoInt, schedule_type |-> "", schedule_detail |-> <<>>,
     delete_item |-> {}, existing_item_description |-> EmptyTable,
     new_item_description |-> new_item_description]

\* POST /task/<id>/edit with the field existing_item_file_<item>.
UploadExistingItem ==
    \E t \in TaskIdInputs, i \in DOMAIN checklist_items, file \in FileInputs :
        /\ Accepting
        /\ Commit(edit_task_post_handler_files(Db, t, EditFilesForm(<<>>),
                                               [x \in {i} |-> file], <<>>, clock))
        /\ UNCHANGED workers

\* POST /task/<id>/edit with one new row and its field new_item_file.
UploadNewItem ==
    \E t \in TaskIdInputs, file \in FileInputs :
        /\ Accepting
        /\ sqlite_sequence.checklist_items <= MaxItems
        /\ Commit(edit_task_post_handler_files(Db, t, EditFilesForm(<< <<"a">> >>),
                                               EmptyTable, <<file>>, clock))
        /\ UNCHANGED workers

\* GET /attachments/<filename> for the files stored and a name that is not.
Download ==
    \E filename \in (DOMAIN attachments) \cup {<<"x">>} :
        /\ Accepting
        /\ Commit(attachments_handler(Db, filename))
        /\ UNCHANGED workers

\* A second passes.
Tick ==
    /\ clock < MaxClock
    /\ clock' = clock + 1
    /\ UNCHANGED <<dbvars, resp, workers>>

InitUploads ==
    /\ companies = upload_db.companies
    /\ tasks = upload_db.tasks
    /\ checklist_items = upload_db.checklist_items
    /\ checklist_completions = upload_db.checklist_completions
    /\ sqlite_sequence = upload_db.sqlite_sequence
    /\ attachments = upload_db.attachments
    /\ clock = 0
    /\ resp = NoResponse
    /\ workers = [w \in 1..NumWorkers |-> IdleWorker]

NextUploads ==
    \/ UploadNewTask
    \/ UploadExistingItem
    \/ UploadNewItem
    \/ Download
    \/ Tick
    \/ SendResponse

SpecUploads == InitUploads /\ [][NextUploads]_vars

(***************************************************************************)
(* SpecMonths: the requests that take a month parameter, with months       *)
(* inside and outside 1..12, on the task of race_db.                       *)
(***************************************************************************)
\* int() of the month parameter accepts every integer (lines 426, 987, 919,
\* 1052): a month below 1, a month of the year, a month above 12.
MonthPeriods == {<<2025, 0>>, <<2025, 6>>, <<2025, 13>>}

ToggleMonth == ToggleIn(MonthPeriods)

DetailMonth == TaskDetailIn(MonthPeriods)

\* GET /?year=&month=
DashboardAnyMonth ==
    \E p \in MonthPeriods :
        /\ Accepting
        /\ Commit(dashboard_handler(Db, p[2], p[1], NoInt))
        /\ UNCHANGED workers

\* GET /email/compose?company=1&year=&month=
ComposeEmailMonth ==
    \E p \in MonthPeriods :
        /\ Accepting
        /\ Commit(compose_email_handler(Db, 1, p[1], p[2]))
        /\ UNCHANGED workers

NextMonths ==
    \/ ToggleMonth
    \/ DetailMonth
    \/ DashboardAnyMonth
    \/ ComposeEmailMonth
    \/ SendResponse

SpecMonths == InitRace /\ [][NextMonths]_vars

(***************************************************************************)
(* SpecRewrite: tasks are created and edited; the edit forms rewrite the   *)
(* descriptions of existing items, with empty and blank texts too.         *)
(***************************************************************************)
\* The edit forms: existing_item_description_<id> submitted empty, blank or
\* with text (parse_form_data keeps blank values, line 348), with and
\* without a deletion and new items.
RewriteItemForms ==
    {[company_id |-> NoInt, schedule_type |-> "", schedule_detail |-> <<>>,
      delete_item |-> d, existing_item_description |-> e,
      new_item_description |-> n] :
        d \in {{}, {1}},
        e \in {EmptyTable, [i \in {1} |-> <<>>], [i \in {2} |-> <<" ">>],
               [i \in {1, 2} |-> <<"z", " ">>]},
        n \in {<<>>, << <<" ">>, <<"c">> >>}}

\* POST /task/<id>/edit rewriting existing items.
RewriteItems ==
    \E t \in TaskIdInputs, form \in RewriteItemForms :
        /\ Accepting
        /\ sqlite_sequence.checklist_items + NonBlank(form.new_item_description)
               <= MaxEditItems
        /\ Commit(edit_task_post_handler(Db, t, form))
        /\ UNCHANGED workers

NextRewrite ==
    \/ NewTaskItems
    \/ RewriteItems
    \/ SendResponse

SpecRewrite == InitDescriptions /\ [][NextRewrite]_vars

(***************************************************************************)
(* Properties.                                                             *)
(***************************************************************************)

\* C1: in every reachable state, whatever the interleaving of view, toggle,
\* statistics, edit and delete requests, checklist_completions holds at most
\* one row for each (item_id, year, month).
C1_AtMostOneRecord ==
    \A k \in DOMAIN checklist_completions : Len(checklist_completions[k]) <= 1

\* Two requests raced on a key: the INSERT of one was rejected, the key has
\* its single row.
C1_InsertRejected ==
    \E w \in DOMAIN workers :
        /\ workers[w].outcome = "error"
        /\ Len(RowsOf(checklist_completions,
                      <<workers[w].todo[1], workers[w].year, workers[w].month>>)) = 1

\* C2: task_detail_handler calls ensure_completion for each item of the task.
\* For a key without a row the call returns 0 and leaves exactly the row
\* completed = 0; a second call for the key returns the same value and
\* leaves the table as it is.
C2_GetOrCreate ==
    [][(resp'.op = "task_detail" /\ resp'.status = "ok") =>
        \A n \in 1..Len(resp'.items) :
            LET k == <<resp'.items[n].id, resp'.year, resp'.month>>
            IN RowsOf(checklist_completions, k) = <<>> =>
                 /\ resp'.items[n].completed = 0
                 /\ RowsOf(checklist_completions', k) = <<0>>
                 /\ ensure_completion(checklist_completions', k[1], k[2], k[3])
                      = [cc |-> checklist_completions', ret |-> 0,
                         raised |-> FALSE]]_vars

\* The task page was read for a period: every item of the task was
\* returned incomplete and has its row completed = 0 for the period.
C2_RowsCreated ==
    /\ resp.op = "task_detail"
    /\ resp.status = "ok"
    /\ Len(resp.items) = MaxItems
    /\ \A n \in 1..Len(resp.items) :
           /\ resp.items[n].completed = 0
           /\ RowsOf(checklist_completions,
                     <<resp.items[n].id, resp.year, resp.month>>) = <<0>>

\* C3: a request that is past the SELECT of ensure_completion, having found
\* no row for its key, runs its INSERT after a concurrent request has read
\* the same absence or inserted the row: it goes on with status 0 (no error
\* outcome) and the key has exactly one row.
C3_ConcurrentGetOrCreate ==
    [][\A w \in DOMAIN workers :
         (workers[w].pc = "insert" /\ workers'[w] # workers[w])
         => /\ workers'[w] = AfterEnsure(workers[w], 0)
            /\ Len(RowsOf(checklist_completions',
                          <<workers[w].todo[1], workers[w].year,
                            workers[w].month>>)) = 1]_vars

\* C4: a toggle of (item, year, month) leaves the rows of every other key
\* (another item, another year or another month) as they were, and with
\* them the incomplete count of every task for every other period.
C4_PeriodIndependence ==
    [][resp'.op = "toggle" =>
        LET k == <<resp'.item, resp'.year, resp'.month>>
        IN /\ \A x \in (DOMAIN checklist_completions
                          \cup DOMAIN checklist_completions') \ {k} :
                 RowsOf(checklist_completions', x) = RowsOf(checklist_completions, x)
           /\ \A t \in TaskIdInputs, p \in AllPeriods \ {<<k[2], k[3]>>} :
                 get_incomplete_count_year_month(Db', t, p[1], p[2]).ret
                   = get_incomplete_count_year_month(Db, t, p[1], p[2]).ret]_vars

\* The last item of the task was toggled to complete for one period, while
\* for another period every item has its row and is incomplete.
C4_CompleteInOnePeriod ==
    /\ resp.op = "toggle"
    /\ resp.new_status = 1
    /\ ItemIdsOfTask(Db, 1) # {}
    /\ \A i \in ItemIdsOfTask(Db, 1) :
           RowsOf(checklist_completions, <<i, resp.year, resp.month>>) = <<1>>
    /\ \E p \in AllPeriods \ {<<resp.year, resp.month>>} :
           \A i \in ItemIdsOfTask(Db, 1) :
               RowsOf(checklist_completions, <<i, p[1], p[2]>>) = <<0>>

\* C5: from every state, for every key, with a row or without, two toggle
\* requests served one after the other leave the status of the key equal
\* to what ensure_completion returns for it before the first.
C5_ToggleInvolution ==
    \A t \in TaskIdInputs, i \in ItemIdInputs, p \in AllPeriods :
        ensure_completion(
            toggle_item_handler(toggle_item_handler(Db, t, i, p[1], p[2]).db,
                                t, i, p[1], p[2]).db.checklist_completions,
            i, p[1], p[2]).ret
          = ensure_completion(checklist_completions, i, p[1], p[2]).ret

\* A second toggle of a key was served: it read complete and wrote back
\* incomplete, the status of a key never toggled.
C5_ToggledBack ==
    /\ resp.op = "toggle"
    /\ resp.current_status = 1
    /\ resp.new_status = 0
    /\ RowsOf(checklist_completions, <<resp.item, resp.year, resp.month>>) = <<0>>

\* C6: a toggle persists the negation of the status of its key: a key
\* without a row ends with the row completed = 1, a key with completed = 1
\* ends with completed = 0, a key with completed = 0 ends with completed = 1.
C6_TogglePersistsNegation ==
    [][resp'.op = "toggle" =>
        LET k == <<resp'.item, resp'.year, resp'.month>>
            before == SelectCompleted(checklist_completions, k)
        IN /\ before = NoInt => RowsOf(checklist_completions', k) = <<1>>
           /\ before = 1 => RowsOf(checklist_completions', k) = <<0>>
           /\ before = 0 => RowsOf(checklist_completions', k) = <<1>>
           /\ before \in {NoInt, 0, 1}
           /\ resp'.new_status = SelectCompleted(checklist_completions', k)]_vars

\* A toggle read a row completed = 0 and left it completed = 1.
C6_ToggledOn ==
    /\ resp.op = "toggle"
    /\ resp.current_status = 0
    /\ resp.new_status = 1
    /\ RowsOf(checklist_completions, <<resp.item, resp.year, resp.month>>) = <<1>>

\* C7: for every task and period, get_incomplete_count_year_month is the
\* number of the items now belonging to the task whose status for the
\* period is 0, an item without a row counting as 0 (so it is 0 for a task
\* without items); the dashboard shows this number for each of its tasks.
C7_IncompleteCount ==
    /\ \A t \in TaskIdInputs, p \in AllPeriods :
          get_incomplete_count_year_month(Db, t, p[1], p[2]).ret
            = Cardinality({i \in ItemIdsOfTask(Db, t) :
                             SelectCompleted(checklist_completions,
                                             <<i, p[1], p[2]>>) \in {NoInt, 0}})
    /\ resp.op = "dashboard" =>
          \A n \in 1..Len(resp.tasks) :
              resp.tasks[n].incomplete_count
                = Cardinality({i \in ItemIdsOfTask(Db, resp.tasks[n].id) :
                                 SelectCompleted(checklist_completions,
                                                 <<i, resp.year, resp.month>>)
                                   \in {NoInt, 0}})

\* The dashboard shows a task with one of its two items incomplete, and a
\* task without items, whose count is 0.
C7_OneOfTwoIncomplete ==
    /\ resp.op = "dashboard"
    /\ \E n, m \in 1..Len(resp.tasks) :
           /\ Len(resp.tasks[n].items) = 2
           /\ resp.tasks[n].incomplete_count = 1
           /\ Len(resp.tasks[m].items) = 0
           /\ resp.tasks[m].incomplete_count = 0

\* C8: a task on the dashboard is classified overdue for the period if and
\* only if it has at least one checklist item and at least one of its items
\* has status 0 for the period; a task without items is never overdue.
C8_OverdueIff ==
    resp.op = "dashboard" =>
        \A n \in 1..Len(resp.tasks) :
            resp.tasks[n].is_overdue
              <=> /\ ItemIdsOfTask(Db, resp.tasks[n].id) # {}
                  /\ \E i \in ItemIdsOfTask(Db, resp.tasks[n].id) :
                         SelectCompleted(checklist_completions,
                                         <<i, resp.year, resp.month>>)
                           \in {NoInt, 0}

\* The dashboard shows an overdue task and a task without items, which is
\* not overdue.
C8_OverdueAndNot ==
    /\ resp.op = "dashboard"
    /\ \E n \in 1..Len(resp.tasks) : resp.tasks[n].is_overdue
    /\ \E n \in 1..Len(resp.tasks) :
           Len(resp.tasks[n].items) = 0 /\ ~resp.tasks[n].is_overdue

\* C9: the statistics of the dashboard give, for every month m of the year,
\* totalCount = the number of active tasks due in m (of the company, when
\* the dashboard is filtered) and doneCount = the number of those with at
\* least one item and no item incomplete for (year, m).
C9_MonthStats ==
    resp.op = "dashboard" =>
        \A m \in 1..12 :
            LET due == {t \in DOMAIN tasks :
                          /\ tasks[t].active = 1
                          /\ m \in Range(due_months(tasks[t]))
                          /\ resp.company \in {NoInt, tasks[t].company_id}}
                done == {t \in due :
                           /\ ItemIdsOfTask(Db, t) # {}
                           /\ \A i \in ItemIdsOfTask(Db, t) :
                                  SelectCompleted(checklist_completions,
                                                  <<i, resp.year, m>>) = 1}
            IN resp.month_stats[m] = <<Cardinality(done), Cardinality(due)>>

\* C10: an active task without checklist items counts toward totalCount of
\* every month in which it is due and toward doneCount of none, and
\* doneCount <= totalCount for every month.
C10_ZeroItemTasks ==
    resp.op = "dashboard" =>
        \A m \in 1..12 :
            LET without_items ==
                    {t \in DOMAIN tasks :
                       /\ tasks[t].active = 1
                       /\ m \in Range(due_months(tasks[t]))
                       /\ resp.company \in {NoInt, tasks[t].company_id}
                       /\ ItemIdsOfTask(Db, t) = {}}
            IN /\ resp.month_stats[m][1] <= resp.month_stats[m][2]
               /\ resp.month_stats[m][2] - resp.month_stats[m][1]
                     >= Cardinality(without_items)

\* C11: for every task and period, get_items_with_completion returns each
\* item now belonging to the task exactly once, by ascending order_num, and
\* the 'completed' field of each is the status of the item for the period
\* (that of its row, 0 without a row), whatever the item's own 'completed'
\* column; the task page shows this list.
C11_ItemsWithStatus ==
    /\ \A t \in TaskIdInputs, p \in AllPeriods :
          LET r == get_items_with_completion(Db, t, p[1], p[2]).ret
          IN /\ {r[n].id : n \in 1..Len(r)} = ItemIdsOfTask(Db, t)
             /\ Len(r) = Cardinality(ItemIdsOfTask(Db, t))
             /\ \A n \in 1..Len(r), m \in 1..Len(r) :
                    n < m => checklist_items[r[n].id].order_num
                               < checklist_items[r[m].id].order_num
             /\ \A n \in 1..Len(r) :
                    r[n].completed
                      = IF SelectCompleted(checklist_completions,
                                           <<r[n].id, p[1], p[2]>>) = 1
                        THEN 1 ELSE 0
    /\ (resp.op = "task_detail" /\ resp.status = "ok") =>
          /\ {resp.items[n].id : n \in 1..Len(resp.items)}
               = ItemIdsOfTask(Db, resp.task)
          /\ \A n \in 1..Len(resp.items) :
                 resp.items[n].completed
                   = SelectCompleted(checklist_completions,
                                     <<resp.items[n].id, resp.year, resp.month>>)

\* The task page shows, after an edit that renumbered the items, an item
\* complete for the period whose own 'completed' column is 0, after an item
\* incomplete for the period whose own 'completed' column is 1.
C11_StatusNotLegacy ==
    /\ resp.op = "task_detail"
    /\ resp.status = "ok"
    /\ \E n \in 1..Len(resp.items), m \in 1..Len(resp.items) :
           /\ n < m
           /\ resp.items[n].completed = 0
           /\ checklist_items[resp.items[n].id].completed = 1
           /\ resp.items[m].completed = 1
           /\ checklist_items[resp.items[m].id].completed = 0
    /\ \E i \in 1..sqlite_sequence.checklist_items : i \notin DOMAIN checklist_items

\* C12: a legacy 'complete' request changes no row of checklist_completions,
\* and after it get_items_with_completion, get_incomplete_count_year_month
\* and the overdue classification of every task for every period, and
\* build_month_stats for the year, are what they were before it.
C12_LegacyFlagUnused ==
    [][resp'.op = "complete_item" =>
        /\ checklist_completions' = checklist_completions
        /\ \A t \in TaskIdInputs, p \in AllPeriods :
             /\ get_items_with_completion(Db', t, p[1], p[2]).ret
                  = get_items_with_completion(Db, t, p[1], p[2]).ret
             /\ get_incomplete_count_year_month(Db', t, p[1], p[2]).ret
                  = get_incomplete_count_year_month(Db, t, p[1], p[2]).ret
             /\ is_overdue(get_incomplete_count_year_month(Db', t, p[1], p[2]).ret)
                  = is_overdue(get_incomplete_count_year_month(Db, t, p[1], p[2]).ret)
        /\ \A c \in CompanyFilterInputs :
             build_month_stats(Db', 2025, c).ret = build_month_stats(Db, 2025, c).ret]_vars

\* The legacy flag of an item was set while the item is incomplete for one
\* period and has no row for another.
C12_FlagSetWhileIncomplete ==
    /\ resp.op = "complete_item"
    /\ resp.item \in ItemIdsOfTask(Db, resp.task)
    /\ checklist_items[resp.item].completed = 1
    /\ RowsOf(checklist_completions, <<resp.item, 2025, 6>>) = <<0>>
    /\ RowsOf(checklist_completions, <<resp.item, 2025, 7>>) = <<>>

C15_SurvivorRecordsKept ==
    [][resp'.op = "edit_task" =>
        \A k \in DOMAIN checklist_completions \cup DOMAIN checklist_completions' :
            ~(k[1] \in ItemIdsOfTask(Db, resp'.task) /\ k[1] \notin DOMAIN checklist_items')
            => RowsOf(checklist_completions', k) = RowsOf(checklist_completions, k)]_vars

\* An edit of task 1 deleted item 1 and renamed item 2, which moved from
\* order_num 1 to 0 and keeps its rows: complete for June, incomplete for July.
C15_RenamedItemKeepsRows ==
    /\ resp.op = "edit_task"
    /\ resp.task = 1
    /\ resp.deleted = {1}
    /\ 2 \in DOMAIN checklist_items
    /\ checklist_items[2].description = <<"z">>
    /\ checklist_items[2].order_num = 0
    /\ RowsOf(checklist_completions, <<2, 2025, 6>>) = <<1>>
    /\ RowsOf(checklist_completions, <<2, 2025, 7>>) = <<0>>

\* C16: after delete_task_handler(t) the task t, every checklist item with
\* task_id = t and every row of checklist_completions of those items are
\* gone, and the rows of every other task, of every other item and of the
\* completions of every other item are what they were.
C16_DeleteTaskCascades ==
    [][resp'.op = "delete_task" =>
        /\ resp'.task \notin DOMAIN tasks'
        /\ \A i \in DOMAIN checklist_items' :
               checklist_items'[i].task_id # resp'.task
        /\ \A k \in DOMAIN checklist_completions' :
               k[1] \notin ItemIdsOfTask(Db, resp'.task)
        /\ DOMAIN tasks' = (DOMAIN tasks) \ {resp'.task}
        /\ \A u \in DOMAIN tasks' : tasks'[u] = tasks[u]
        /\ DOMAIN checklist_items'
             = (DOMAIN checklist_items) \ ItemIdsOfTask(Db, resp'.task)
        /\ \A i \in DOMAIN checklist_items' : checklist_items'[i] = checklist_items[i]
        /\ DOMAIN checklist_completions'
             = {k \in DOMAIN checklist_completions :
                  k[1] \notin ItemIdsOfTask(Db, resp'.task)}
        /\ \A k \in DOMAIN checklist_completions' :
               checklist_completions'[k] = checklist_completions[k]]_vars

\* Task 1 was deleted with its item 1 and the rows of that item; task 2 is
\* there with its item 2, complete for June 2025.
C16_TaskDeletedOtherKept ==
    /\ resp.op = "delete_task"
    /\ resp.task = 1
    /\ DOMAIN tasks = {2}
    /\ DOMAIN checklist_items = {2}
    /\ checklist_items[2].task_id = 2
    /\ RowsOf(checklist_completions, <<2, 2025, 6>>) = <<1>>
    /\ \A k \in DOMAIN checklist_completions : k[1] # 1

\* C17: a key (item, year, month) that has a row in checklist_completions
\* has one after every step, unless the step is an edit that deletes the
\* item or the deletion of the item's task; no dashboard, task page, toggle,
\* visibility, email or other request removes a row.
C17_RecordsPersist ==
    [][\A k \in DOMAIN checklist_completions :
         \/ k \in DOMAIN checklist_completions'
            /\ Len(checklist_completions'[k]) >= 1
         \/ resp'.op = "edit_task" /\ k[1] \in resp'.deleted
         \/ resp'.op = "delete_task" /\ k[1] \in ItemIdsOfTask(Db, resp'.task)]_vars

\* The email of a period was composed while a hidden task has an item with
\* the rows written earlier by a toggle (June, complete) and by a view
\* (July, incomplete).
C17_RowsOutliveRequests ==
    /\ resp.op = "compose_email"
    /\ resp.status = "ok"
    /\ \E t \in DOMAIN tasks :
           /\ tasks[t].active = 0
           /\ \E i \in ItemIdsOfTask(Db, t) :
                  /\ RowsOf(checklist_completions, <<i, 2025, 6>>) = <<1>>
                  /\ RowsOf(checklist_completions, <<i, 2025, 7>>) = <<0>>

\* C18: a visibility request that hides the tasks of a set changes no
\* checklist item and no row of checklist_completions; the tasks of every
\* month (get_tasks_for_month), the tasks on the dashboard and the totals of
\* the month statistics are those of before without the tasks of the set;
\* and showing the set again, when its tasks were visible before, gives back
\* the items with their status and the dashboard with its statistics.
C18_HideAndShow ==
    [][resp'.op = "update_visibility" =>
        \A ids \in SUBSET TaskIdInputs :
            Commit(update_tasks_visibility_handler(Db, ids, "hide")) =>
              /\ checklist_items' = checklist_items
              /\ checklist_completions' = checklist_completions
              /\ \A m \in 0..13 :
                     Range(get_tasks_for_month(Db', m))
                       = Range(get_tasks_for_month(Db, m)) \ ids
              /\ \A p \in DashboardPeriods, c \in CompanyFilterInputs :
                   /\ {t.id : t \in Range(dashboard_handler(Db', p[2], p[1], c).resp.tasks)}
                        = {t.id : t \in Range(dashboard_handler(Db, p[2], p[1], c).resp.tasks)}
                            \ ids
                   /\ \A m \in 1..12 :
                          dashboard_handler(Db', p[2], p[1], c).resp.month_stats[m][2]
                            = dashboard_handler(Db, p[2], p[1], c).resp.month_stats[m][2]
                                - Cardinality(ids \cap Range(filter_company(
                                      Db, get_tasks_for_month(Db, m), c)))
              /\ (\A t \in ids \cap DOMAIN tasks : tasks[t].active = 1) =>
                   /\ \A t \in TaskIdInputs, p \in AllPeriods :
                          get_items_with_completion(
                              update_tasks_visibility_handler(Db', ids, "show").db,
                              t, p[1], p[2]).ret
                            = get_items_with_completion(Db, t, p[1], p[2]).ret
                   /\ \A p \in DashboardPeriods, c \in CompanyFilterInputs :
                          dashboard_handler(
                              update_tasks_visibility_handler(Db', ids, "show").db,
                              p[2], p[1], c).resp
                            = dashboard_handler(Db, p[2], p[1], c).resp]_vars

\* Task 1 is hidden with its items complete for June 2025 and incomplete
\* for July, task 2 is visible.
C18_HiddenWithHistory ==
    /\ resp.op = "update_visibility"
    /\ tasks[1].active = 0
    /\ tasks[2].active = 1
    /\ \A i \in ItemIdsOfTask(Db, 1) :
           /\ RowsOf(checklist_completions, <<i, 2025, 6>>) = <<1>>
           /\ RowsOf(checklist_completions, <<i, 2025, 7>>) = <<0>>
    /\ ItemIdsOfTask(Db, 1) # {}

\* C19: for every month, get_tasks_for_month returns exactly the tasks that
\* are active and due in the month, a 'monthly' task being due in each of
\* 1..12 whatever its schedule_detail and a task of any other schedule_type
\* in the months parsed from its schedule_detail; for a month outside 1..12
\* it returns no task; the unfiltered dashboard of a month lists these tasks.
C19_TasksDueInMonth ==
    /\ \A m \in MonthInputs :
           /\ Range(get_tasks_for_month(Db, m))
                = {t \in DOMAIN tasks :
                     /\ tasks[t].active = 1
                     /\ m \in (IF tasks[t].schedule_type = "monthly" THEN 1..12
                               ELSE Range(parse_month_list(tasks[t].schedule_detail)))}
           /\ m \notin 1..12 => get_tasks_for_month(Db, m) = <<>>
    /\ (resp.op = "dashboard" /\ resp.company = NoInt) =>
           {resp.tasks[n].id : n \in 1..Len(resp.tasks)}
             = {t \in DOMAIN tasks :
                  /\ tasks[t].active = 1
                  /\ resp.month
                       \in (IF tasks[t].schedule_type = "monthly" THEN 1..12
                            ELSE Range(parse_month_list(tasks[t].schedule_detail)))}

\* C20: the due months of a quarterly or custom task are the values of the
\* comma-separated tokens of its schedule_detail that are integers in 1..12,
\* every token that is not a number or is outside 1..12 being dropped and the
\* others kept: '1,4,7,10' gives {1, 4, 7, 10} and 'abc,13,0,5' gives {5}.
\* So the dashboard of a month lists a visible quarterly or custom task if
\* and only if the month is the value of such a token.
C20_DropInvalidTokens ==
    resp.op = "dashboard" =>
        \A t \in DOMAIN tasks :
            (tasks[t].schedule_type \in {"quarterly", "custom"} /\ tasks[t].active = 1) =>
              /\ t \in {resp.tasks[n].id : n \in 1..Len(resp.tasks)}
                   <=> resp.month
                         \in {py_int(f).val :
                                f \in {x \in Range(split_comma(tasks[t].schedule_detail,
                                                               <<>>, <<>>)) :
                                         py_int(x).ok /\ py_int(x).val \in 1..12}}
              /\ tasks[t].schedule_detail = <<"1", ",", "4", ",", "7", ",", "1", "0">>
                   => (t \in {resp.tasks[n].id : n \in 1..Len(resp.tasks)}
                         <=> resp.month \in {1, 4, 7, 10})
              /\ tasks[t].schedule_detail
                   = <<"a", "b", "c", ",", "1", "3", ",", "0", ",", "5">>
                   => (t \in {resp.tasks[n].id : n \in 1..Len(resp.tasks)}
                         <=> resp.month = 5)

C22_HasAnyCompletion ==
    /\ \A t \in TaskIdInputs :
           has_any_completion(Db, t)
             <=> \E i \in DOMAIN checklist_items :
                     /\ checklist_items[i].task_id = t
                     /\ \E k \in DOMAIN checklist_completions :
                            k[1] = i /\ 1 \in Range(checklist_completions[k])
    /\ \A n \in 1..Len(get_all_tasks(Db)) :
           get_all_tasks(Db)[n].completed_count > 0
             <=> has_any_completion(Db, get_all_tasks(Db)[n].id)
    /\ resp.op = "all_tasks" =>
           \A n \in 1..Len(resp.tasks) :
               resp.tasks[n].completed_count > 0
                 <=> has_any_completion(Db, resp.tasks[n].id)

\* The page of all tasks lists a task with a completed item and a task whose
\* only row is incomplete.
C22_ExecutedAndNot ==
    /\ resp.op = "all_tasks"
    /\ Len(resp.tasks) = 2
    /\ resp.tasks[1].completed_count > 0
    /\ has_any_completion(Db, resp.tasks[1].id)
    /\ resp.tasks[2].completed_count = 0
    /\ \E k \in DOMAIN checklist_completions :
           /\ k[1] \in ItemIdsOfTask(Db, resp.tasks[2].id)
           /\ checklist_completions[k] = <<0>>

\* C23: concurrent toggles on a (item, year, month) whose row exists lose no
\* update: the flag is left as if the toggles had run one after the other,
\* so the UPDATE of every toggle negates the flag the table holds when it is
\* applied, for every interleaving of the SELECTs and UPDATEs of the requests.
C23_NoLostUpdate ==
    [][\A w \in 1..NumWorkers :
          (workers[w].pc = "update" /\ workers'[w].pc = "done") =>
              LET k == <<workers[w].todo[1], workers[w].year, workers[w].month>>
              IN /\ RowsOf(checklist_completions, k) # <<>>
                 /\ RowsOf(checklist_completions', k)
                      = <<new_status_of(SelectCompleted(checklist_completions, k))>>]_vars

C25_NoErrorOnBadParams ==
    resp.op # "error"

\* C26: a request that names a task or a checklist item that does not exist
\* (the task page, the edit, the deletion, the toggle, the legacy 'complete')
\* is answered 'not found', not with an error and not as if it had succeeded.
C26_NotFoundSurfaced ==
    [][/\ (resp'.op \in {"task_detail", "edit_task", "delete_task"}
           /\ resp'.task \notin DOMAIN tasks)
          => resp'.status = "not_found"
       /\ (resp'.op = "toggle" /\ resp'.item \notin DOMAIN checklist_items)
          => resp'.status = "not_found"
       /\ (resp'.op = "complete_item"
           /\ ~(/\ resp'.task \in DOMAIN tasks
                /\ resp'.item \in ItemIdsOfTask(Db, resp'.task)))
          => resp'.status = "not_found"]_vars

\* C27: any two uploads receive different attachment references, also when
\* two requests served within the same second of the clock upload files of
\* the same original name at the same row index or for the same item: no two
\* checklist items hold the same reference, and the file of every reference
\* an item holds is stored, so no upload overwrites the blob of another.
C27_DistinctReferences ==
    \A i \in DOMAIN checklist_items :
        checklist_items[i].attachment # <<>> =>
            /\ checklist_items[i].attachment \in DOMAIN attachments
            /\ \A j \in DOMAIN checklist_items :
                   j # i => checklist_items[j].attachment # checklist_items[i].attachment

\* C28: the name of the download derived from an attachment reference is the
\* original filename of the upload, underscores included, for a file
\* uploaded with a new task, for an existing item and with a new item of an
\* edit.
C28_OriginalNamePreserved ==
    [][\A i \in DOMAIN checklist_items' :
          \A file \in FileInputs :
              (/\ file.filename # <<>>
               /\ checklist_items'[i].attachment # <<>>
               /\ i \in DOMAIN checklist_items
                    => checklist_items[i].attachment # checklist_items'[i].attachment
               /\ \/ Commit(new_task_post_handler_files(
                                Db, [company_id |-> 1, schedule_type |-> "monthly",
                                     schedule_detail |-> <<>>,
                                     item_description |-> << <<"a">> >>],
                                [idx \in {0} |-> file], clock))
                  \/ \E t \in TaskIdInputs :
                         \/ Commit(edit_task_post_handler_files(
                                       Db, t, EditFilesForm(<<>>), [x \in {i} |-> file],
                                       <<>>, clock))
                         \/ Commit(edit_task_post_handler_files(
                                       Db, t, EditFilesForm(<< <<"a">> >>), EmptyTable,
                                       <<file>>, clock)))
              => attachments_handler(Db', checklist_items'[i].attachment)
                     .resp.original_name = file.filename]_vars

\* C29: in every reachable state every task is owned by a company that
\* exists: whatever new-task and edit forms were submitted, a missing
\* company_id or one that names no company included, no task is stored whose
\* company_id refers to no company.
C29_TaskHasCompany ==
    \A t \in DOMAIN tasks : tasks[t].company_id \in DOMAIN companies

\* C30: in every reachable state, whatever the requests and their order, a
\* toggle that names an item id that does not exist included, every row of
\* checklist_completions has the item_id of a row of checklist_items.
C30_CompletionsHaveItems ==
    \A k \in DOMAIN checklist_completions : k[1] \in DOMAIN checklist_items

\* C31: the operations that only read (ensure_completion,
\* get_items_with_completion, get_incomplete_count_year_month, the dashboard,
\* build_month_stats, the task page, the email composition, the listing of
\* all tasks) keep every row of checklist_completions that exists with its
\* completed value and add rows with completed = 0 only; a step that changes
\* the completed value of a row that stays is a toggle.
C31_ReadsKeepFlags ==
    [][/\ resp'.op \in {"dashboard", "task_detail", "compose_email", "all_tasks"} =>
            /\ \A k \in DOMAIN checklist_completions :
                   /\ k \in DOMAIN checklist_completions'
                   /\ checklist_completions'[k] = checklist_completions[k]
            /\ \A k \in DOMAIN checklist_completions' :
                   k \notin DOMAIN checklist_completions =>
                       checklist_completions'[k] = <<0>>
       /\ (\E k \in DOMAIN checklist_completions :
               /\ k \in DOMAIN checklist_completions'
               /\ checklist_completions'[k] # checklist_completions[k]) =>
            resp'.op = "toggle"]_vars

\* A dashboard, task page or email composition has been served on a ledger
\* that holds a completed row and a row the reads created.
C31_ReadBesideCompleted ==
    /\ resp.op \in {"dashboard", "task_detail", "compose_email"}
    /\ \E k \in DOMAIN checklist_completions : checklist_completions[k] = <<1>>
    /\ \E k \in DOMAIN checklist_completions : checklist_completions[k] = <<0>>

\* C32: a checklist item that a step creates (new task or edit) has no row
\* in checklist_completions at that moment, whatever came before: deletions
\* of earlier items and toggles naming arbitrary item ids included.  Item
\* ids are not reused and a new item inherits no row written before it
\* existed.
C32_NewItemHasNoRecord ==
    [][\A i \in DOMAIN checklist_items' :
          i \notin DOMAIN checklist_items =>
              \A k \in DOMAIN checklist_completions' : k[1] # i]_vars

\* C33: in every reachable state every row of checklist_completions has a
\* month in 1..12: no dashboard, task page, email composition or toggle with
\* an arbitrary integer month (0, 13) creates a row for another month.
C33_MonthInRange ==
    \A k \in DOMAIN checklist_completions : k[3] \in 1..12

\* C34: in every reachable state the items of one task have pairwise
\* distinct order_num values, after a creation that skipped blank
\* descriptions and after any edits, so that ORDER BY order_num decides the
\* order of the task's items: the values ascend strictly along it.
C34_DistinctOrderNum ==
    /\ \A i, j \in DOMAIN checklist_items :
           (i # j /\ checklist_items[i].task_id = checklist_items[j].task_id) =>
               checklist_items[i].order_num # checklist_items[j].order_num
    /\ \A t \in DOMAIN tasks :
           \A n \in 1..(Len(OrderByOrderNum(checklist_items, ItemIdsOfTask(Db, t))) - 1) :
               checklist_items[OrderByOrderNum(checklist_items, ItemIdsOfTask(Db, t))[n]].order_num
                 < checklist_items[OrderByOrderNum(checklist_items, ItemIdsOfTask(Db, t))[n + 1]].order_num

\* A task holds two items whose order_num values leave a gap: the creation
\* skipped a blank description between them.
C34_GapAfterBlank ==
    \E i, j \in DOMAIN checklist_items :
        /\ checklist_items[i].task_id = checklist_items[j].task_id
        /\ checklist_items[j].order_num > checklist_items[i].order_num + 1

\* C35: in every reachable state every row of checklist_items has a
\* description that is not empty after trimming: after the creation of a
\* task, after an edit that inserts items, and after an edit that submits a
\* new description, empty or blank too, for an item that stays.
C35_DescriptionNotBlank ==
    \A i \in DOMAIN checklist_items : strip(checklist_items[i].description) # <<>>

====
